---- MODULE Spec2Model ----
(***************************************************************************)
(* A model of twister's HTTP/1.x connection engine (package server):       *)
(* serveConnection's loop of prepare / handler / finish over one accepted  *)
(* connection, the response framing decided by conn.Respond, and the       *)
(* identity and chunked body writers behind the buffered body sink.        *)
(*                                                                         *)
(* Text that the code parses or formats (header values, decimal and hex    *)
(* numbers) is a sequence of one-character strings; header names and the   *)
(* literals the code writes verbatim are TLA+ strings.  Body bytes are     *)
(* counted, not stored.                                                    *)
(***************************************************************************)
EXTENDS Integers, Sequences, FiniteSets, TLC

\* ------------------------------------------------------------------ bounds

\* Operations the application handler may perform in one request cycle.
MaxOps == 3
\* Iterations of one buffered write's loop that the model follows.
MaxSpin == 2
\* Direct calls of a body writer that the model follows.
MaxCalls == 4
\* Routes registered with a router.
MaxRoutes == 2
\* Header lines in a request the parser is given.
MaxLines == 3
\* Operations of the handler in a cycle that runs while the body and the sink
\* of an earlier cycle are still in the application's hands.
MaxLateOps == 1

\* bufio.NewWriter's buffer size (Go's bufio default).
BufSize == 4096

\* ----------------------------------------------------------------- strings

UpperChars == <<"A","B","C","D","E","F","G","H","I","J","K","L","M",
                "N","O","P","Q","R","S","T","U","V","W","X","Y","Z">>
LowerChars == <<"a","b","c","d","e","f","g","h","i","j","k","l","m",
                "n","o","p","q","r","s","t","u","v","w","x","y","z">>
DigitChars == <<"0","1","2","3","4","5","6","7","8","9",
                "a","b","c","d","e","f">>

LowerChar(ch) ==
    IF \E i \in 1..26 : UpperChars[i] = ch
    THEN LowerChars[CHOOSE i \in 1..26 : UpperChars[i] = ch]
    ELSE ch

\* strings.ToLower
ToLower(s) == [i \in 1..Len(s) |-> LowerChar(s[i])]

IsDigit(ch) == \E i \in 1..10 : DigitChars[i] = ch
DigitVal(ch) == (CHOOSE i \in 1..16 : DigitChars[i] = ch) - 1

RECURSIVE DecVal(_)
DecVal(s) == IF s = <<>> THEN 0
             ELSE 10 * DecVal(SubSeq(s, 1, Len(s) - 1)) + DigitVal(s[Len(s)])

\* strconv.Atoi: an optional sign and at least one decimal digit.
Atoi(s) ==
    LET signed == Len(s) > 0 /\ s[1] \in {"+", "-"}
        digits == IF signed THEN Tail(s) ELSE s
    IN  IF Len(digits) = 0 \/ \E i \in 1..Len(digits) : ~IsDigit(digits[i])
        THEN [ok |-> FALSE, v |-> 0]
        ELSE [ok |-> TRUE,
              v  |-> IF signed /\ s[1] = "-" THEN 0 - DecVal(digits)
                     ELSE DecVal(digits)]

RECURSIVE Itob(_, _)
\* strconv.Itob(n, base) for n >= 0; strconv.Itoa is base 10.
Itob(n, base) ==
    IF n < base THEN <<DigitChars[n + 1]>>
    ELSE Itob(n \div base, base) \o <<DigitChars[(n % base) + 1]>>

Itoa(n) == Itob(n, 10)

\* The value of a lower-case hexadecimal numeral (used to read the wire back).
RECURSIVE HexVal(_)
HexVal(s) == IF s = <<>> THEN 0
             ELSE 16 * HexVal(SubSeq(s, 1, Len(s) - 1)) + DigitVal(s[Len(s)])

CRLF == <<"\r", "\n">>

\* ----------------------------------------------------------------- headers

HeaderContentLength == "Content-Length"
HeaderContentType == "Content-Type"
HeaderTransferEncoding == "Transfer-Encoding"
HeaderConnection == "Connection"
HeaderExpect == "Expect"

StatusOK == 200
StatusNotModified == 304

\* A StringsMap is a function from the names present to their value lists.
EmptyMap == [k \in {} |-> <<>>]

\* StringsMap.Get: the first value of the name, and whether there is one.
HeaderGet(h, k) ==
    IF k \in DOMAIN h /\ Len(h[k]) > 0
    THEN [found |-> TRUE, s |-> h[k][1]]
    ELSE [found |-> FALSE, s |-> <<>>]

\* StringsMap.Set: the name now has exactly this value.
HeaderSet(h, k, v) == [x \in (DOMAIN h) \cup {k} |-> IF x = k THEN <<v>> ELSE h[x]]

\* header[k] = nil, false: the name is removed.
HeaderDelete(h, k) == [x \in (DOMAIN h) \ {k} |-> h[x]]


\* The reason phrases of web.StatusText for the statuses the model uses.
StatusText(status) ==
    IF status = StatusOK THEN [found |-> TRUE, text |-> <<"O","K">>]
    ELSE IF status = StatusNotModified
    THEN [found |-> TRUE, text |-> <<"N","o","t"," ","M","o","d","i","f","i","e","d">>]
    ELSE [found |-> FALSE, text |-> <<>>]

\* ------------------------------------------------------------------ inputs

S_close == <<"c","l","o","s","e">>
S_Close == <<"C","l","o","s","e">>
S_keepalive == <<"k","e","e","p","-","a","l","i","v","e">>
S_continue == <<"1","0","0","-","c","o","n","t","i","n","u","e">>
S_Continue == <<"1","0","0","-","C","o","n","t","i","n","u","e">>
S_other == <<"2","0","0","-","o","k">>
S_gzip == <<"g","z","i","p">>
S_chunked == <<"c","h","u","n","k","e","d">>
S_default == <<"t","e","x","t","/","h","t","m","l"," ","c","h","a","r","s","e","t","=","u","t","f","-","8">>

None == <<"-">>

\* Protocol versions <<major, minor>> a request line may carry.
Versions == {<<1, 0>>, <<1, 1>>, <<2, 0>>}
\* Values of the request's Connection, Expect and Content-Length headers
\* (None: the header is absent).
ConnectionValues == {None, S_Close, S_keepalive}
ExpectValues == {None, S_Continue, S_other}
LengthValues == {None, <<"x">>, <<"0">>, <<"2">>, <<"-", "1">>}

\* The requests a peer sends, as <<parsed, version, Connection, Expect,
\* Content-Length>>: one whose request line or header block does not parse;
\* every version with every Connection value; at HTTP/1.1 every Expect value
\* with every Content-Length value; and a body with a 100-continue expectation
\* on connections that close.
RequestInputs ==
    { <<FALSE, <<1, 0>>, None, None, None>> }
    \cup { <<TRUE, v, cn, None, None>> : v \in Versions, cn \in ConnectionValues }
    \cup { <<TRUE, <<1, 1>>, None, ex, cl>> : ex \in ExpectValues, cl \in LengthValues }
    \cup { <<TRUE, <<1, 0>>, S_keepalive, S_Continue, <<"2">>>>,
           <<TRUE, <<1, 1>>, S_Close, S_Continue, <<"2">>>> }

RequestHeader(cn, ex, cl) ==
    LET h1 == IF cn = None THEN EmptyMap ELSE HeaderSet(EmptyMap, HeaderConnection, cn)
        h2 == IF ex = None THEN h1 ELSE HeaderSet(h1, HeaderExpect, ex)
    IN  IF cl = None THEN h2 ELSE HeaderSet(h2, HeaderContentLength, cl)

\* Statuses and header sets the application commits a response with.
Statuses == {StatusOK, StatusNotModified}
ResponseHeaders ==
    { EmptyMap,
      HeaderSet(EmptyMap, HeaderContentLength, <<"6","5">>),
      HeaderSet(EmptyMap, HeaderContentLength, <<"0">>),
      HeaderSet(EmptyMap, HeaderTransferEncoding, S_gzip),
      HeaderSet(HeaderSet(EmptyMap, HeaderContentType, S_default),
                HeaderTransferEncoding, S_gzip),
      HeaderSet(HeaderSet(EmptyMap, HeaderContentLength, <<"x">>),
                HeaderTransferEncoding, S_chunked) }
\* Lengths of the slices the application reads the body into and writes.
ReadLens == {1, 4}
WriteLens == {0, 26, 5000}
\* Lengths of the slices handed to a body writer called directly.
WriterLens == {0, 3, 26}


\* ------------------------------------------------------------------- state

VARIABLES
    pc,      \* where serveConnection is: "await" (top of the loop), "serve" (in
             \* handler.ServeWeb), "write" (inside a body write's loop),
             \* "closed" (netConn.Close() done), "returned" (left after a hijack)
    netUp,   \* the peer's end of the stream still works
    closed,  \* the engine has closed the stream
    c,       \* the conn of the current loop iteration
    bw,      \* c.bw, the buffered body sink, and what it holds
    req,     \* the request prepare parsed (or failed to parse)
    out,     \* what reached the stream in the current request cycle, in order
    pend,    \* bytes of the write in progress not yet accepted by the sink
    spins,   \* iterations of the write in progress
    ops,     \* handler operations in the current cycle
    hist,    \* what happened in the current cycle (history only)
    wlog,    \* the body writer called directly: what its calls returned
    router,  \* a web.Router: its routes, in registration order
    dispatch,     \* what the Router's last ServeWeb came to
    hostRouter,   \* a web.HostRouter: its default handler and its routes
    hostDispatch, \* what the HostRouter's last ServeWeb came to
    parse         \* readStatusLine and readHeaders at work on a byte source

\* serveConnection's own state.
evars == <<pc, netUp, closed, c, bw, req, out, pend, spins, ops, hist>>
\* The path router's state.
rvars == <<router, dispatch>>
\* The state of the parts exercised apart from serveConnection.
\* The host router's state.
hvars == <<hostRouter, hostDispatch>>
others == <<wlog, rvars, hvars, parse>>

vars == <<evars, others>>

\* conn{netConn: netConn, br: br}
NewConn ==
    [ atLeastHttp11 |-> FALSE, chunked |-> FALSE, closeAfterResponse |-> FALSE,
      hijacked |-> FALSE, attached |-> TRUE, requestAvail |-> 0,
      requestErr |-> "nil", respondCalled |-> FALSE, responseAvail |-> 0,
      responseErr |-> "nil", write100Continue |-> FALSE ]

\* c.bw before Respond: nil.
NoWriter == [open |-> FALSE, kind |-> "none", head |-> <<>>, n |-> 0, err |-> "nil"]

NoRequest == [ok |-> FALSE, major |-> 0, minor |-> 0, header |-> EmptyMap]

NewHist ==
    [ prepares |-> 0,         \* runs of prepare (0 before the first request)
      prior |-> FALSE,        \* a request cycle was completed before this one
      head |-> <<>>,          \* the header block Respond serialized
      by |-> "none",          \* who committed the response: handler or default
      status |-> 0,           \* the status and header set the caller supplied
      header |-> EmptyMap,
      sink |-> "none",        \* what the last Respond call returned
      responds |-> 0,         \* Respond calls
      reads |-> 0,            \* body Read calls
      earlyReads |-> 0,       \* body Read calls before the response was committed
      streamReads |-> 0,      \* reads of the stream made for the body
      readErr |-> "nil",      \* the error of the first body Read that failed
      lateRead |-> FALSE,     \* the last body Read came after a failed one
      lastErr |-> "nil",      \* the error the last body Read returned
      lastEarly |-> FALSE,    \* ... made before the response was committed
      lateTouch |-> FALSE,    \* a body Read after a failed one used the stream
      served |-> 0,           \* body bytes the Read calls returned, in all
      lastAvail |-> 0,        \* the remaining count when the last body Read began
      lastN |-> 0,            \* the bytes the last body Read returned
      lastStream |-> FALSE,   \* the last body Read read the stream
      cw |-> <<>>,            \* lengths of the writes that reached the chunked writer
      finishes |-> 0,         \* runs of finish
      handled |-> FALSE,      \* the handler was invoked
      hijackAsked |-> FALSE,  \* Hijack returned without an error
      keeps |-> FALSE,        \* the application keeps body and sink past the cycle
      old |-> [c |-> NewConn, kind |-> "none"],
                              \* the conn whose body and sink it kept, and its writer
      last |-> "none",        \* the last use of the kept body or sink
      lateOk |-> FALSE,       \* a use of them returned no error
      lateUsed |-> FALSE ]    \* a use of them read or wrote the stream

\* No direct call of a body writer yet.
NoCalls ==
    [ calls |-> 0,        \* calls made
      first |-> "nil",    \* the error of the first call that failed
      late |-> FALSE,     \* the last call came after a failed one
      n |-> 0,            \* what the last call returned
      err |-> "nil",
      touched |-> FALSE ] \* the last call put something on the stream

\* NewRouter(): &Router{}
NewRouter == [routes |-> <<>>]
\* No request dispatched yet.
NoDispatch == [kind |-> "none"]
\* A router nothing is registered with and nothing was dispatched by.
RouterIdle == router = NewRouter /\ dispatch = NoDispatch

\* NotFoundHandler()
NotFoundHandler == [name |-> "NotFound", route |-> 0]
\* A nil Handler.
NilHandler == [name |-> "nil", route |-> 0]
\* NewHostRouter(defaultHandler)
NewHostRouter(defaultHandler) ==
    [ defaultHandler |-> IF defaultHandler = NilHandler THEN NotFoundHandler ELSE defaultHandler,
      routes |-> <<>> ]
\* No byte source being parsed.
ParserIdle == parse = [stage |-> "off"]
\* No host router in use.
HostIdle == hostRouter = NewHostRouter(NilHandler) /\ hostDispatch = NoDispatch

\* The engine's state an operation works on.
St == [c |-> c, bw |-> bw, out |-> out, cw |-> hist.cw, sr |-> hist.streamReads]

\* ------------------------------------------------------------------ stream

LitToken(s) == [t |-> "lit", s |-> s]
CharsToken(s) == [t |-> "chars", s |-> s]
DataToken(n) == [t |-> "data", n |-> n]

\* netConn.Write(p): everything or, once the peer is gone, nothing.
NetWrite(st, toks, len) ==
    IF netUp THEN [st |-> [st EXCEPT !.out = @ \o toks], n |-> len, err |-> "nil"]
    ELSE [st |-> st, n |-> 0, err |-> "EIO"]

\* Faulty variant: the write's error is not kept.
latchResponseErrDropped(r) == r

\* n, c.responseErr = c.netConn.Write(p)
latchResponseErr(r) == [r EXCEPT !.st.c.responseErr = r.err]

\* c.responseAvail -= n
countResponse(r) == [r EXCEPT !.st.c.responseAvail = @ - r.n]

\* identityWriter.Write
identityWrite(st, toks, len) ==
    IF st.c.responseErr # "nil"
    THEN [st |-> st, n |-> 0, err |-> st.c.responseErr]
    ELSE countResponse(latchResponseErr(NetWrite(st, toks, len)))

\* Faulty variant: the chunk size written in decimal.
chunkSizeLineDecimal(len) == Itob(len, 10) \o CRLF

\* The chunk-size line: strconv.Itob(len(p), 16) + "\r\n"
chunkSizeLine(len) == Itob(len, 16) \o CRLF

\* chunkedWriter.Write after the chunk's bytes: the closing CRLF, and a count
\* of 0 with the last write's error.
chunkTrailer(r2) ==
    IF r2.err # "nil" THEN r2
    ELSE [latchResponseErr(NetWrite(r2.st, <<LitToken("\r\n")>>, 2)) EXCEPT !.n = 0]

\* chunkedWriter.Write after the size line: the chunk's bytes.
chunkData(r1, toks, len) ==
    IF r1.err # "nil" THEN [r1 EXCEPT !.n = 0]
    ELSE chunkTrailer(latchResponseErr(NetWrite(r1.st, toks, len)))

\* chunkedWriter.Write past its two early returns: the size line first.
chunkSize(st, toks, len) ==
    chunkData(latchResponseErr(NetWrite(st, <<CharsToken(chunkSizeLine(len))>>,
                                        Len(chunkSizeLine(len)))),
              toks, len)

\* chunkedWriter.Write (every call's length is remembered in cw)
chunkedWrite(st, toks, len) ==
    IF st.c.responseErr # "nil"
    THEN [st |-> [st EXCEPT !.cw = Append(@, len)], n |-> 0, err |-> st.c.responseErr]
    ELSE IF len = 0
    THEN [st |-> [st EXCEPT !.cw = Append(@, len)], n |-> 0, err |-> "nil"]
    ELSE chunkSize([st EXCEPT !.cw = Append(@, len)], toks, len)

\* --------------------------------------------------------------- bufio.Writer

HeadLen(head) == IF head = <<>> THEN 0 ELSE head[1].n

Buffered(b) == HeadLen(b.head) + b.n
Available(b) == BufSize - Buffered(b)

\* What the buffer holds, as the slice handed to the writer behind it.
BufToks(b) == b.head \o (IF b.n > 0 THEN <<DataToken(b.n)>> ELSE <<>>)

\* b.wr.Write(p)
wrWrite(st, toks, len) ==
    IF st.bw.kind = "chunked" THEN chunkedWrite(st, toks, len)
    ELSE identityWrite(st, toks, len)

\* Flush's verdict on the write behind it: a write that accepts less than it
\* was given without an error is io.ErrShortWrite.
flushErr(r, full) == IF r.n < full /\ r.err = "nil" THEN "ErrShortWrite" ELSE r.err

\* Flush after the write: the first error is kept and the data stays,
\* otherwise the buffer is empty.
flushResult(r, full) ==
    IF flushErr(r, full) # "nil" THEN [r.st EXCEPT !.bw.err = flushErr(r, full)]
    ELSE [r.st EXCEPT !.bw.head = <<>>, !.bw.n = 0]

\* bufio.Writer.Flush
bufFlush(st) ==
    IF st.bw.err # "nil" \/ Buffered(st.bw) = 0 THEN st
    ELSE flushResult(wrWrite(st, BufToks(st.bw), Buffered(st.bw)), Buffered(st.bw))

\* n, b.err = b.wr.Write(p); p = p[n:]
directResult(r, len) == [st |-> [r.st EXCEPT !.bw.err = r.err], pend |-> len - r.n]

\* One iteration of bufio.Writer.Write's loop, entered while the slice is longer
\* than the room left and no error is latched: an empty buffer hands the slice
\* to the writer behind it, otherwise the buffer is filled and flushed.
\* Gives the state and the bytes of the slice still to take.
bufWriteIter(st, len) ==
    IF Buffered(st.bw) = 0
    THEN directResult(wrWrite(st, <<DataToken(len)>>, len), len)
    ELSE [st |-> bufFlush([st EXCEPT !.bw.n = @ + Available(st.bw)]),
          pend |-> len - Available(st.bw)]

bufWriteLoops(st, len) == len > Available(st.bw) /\ st.bw.err = "nil"

\* The end of bufio.Writer.Write: the rest of the slice is copied into the
\* buffer unless an error is latched.
bufWriteTail(st, len) ==
    IF st.bw.err # "nil" THEN st ELSE [st EXCEPT !.bw.n = @ + len]

\* An iteration, and the end of the write when the loop is over.
bufWriteStep(r) ==
    IF bufWriteLoops(r.st, r.pend) THEN r
    ELSE [st |-> bufWriteTail(r.st, r.pend), pend |-> 0]

\* ----------------------------------------------------------------- prepare

Min(a, b) == IF a < b THEN a ELSE b

\* Faulty variant: a Content-Length that does not parse counts as zero.
lengthOfLenient(a) == [err |-> FALSE, avail |-> IF a.ok THEN a.v ELSE 0]

\* strconv.Atoi's answer as prepare uses it: the count, or an error.
lengthOf(a) == IF a.ok THEN [err |-> FALSE, avail |-> a.v] ELSE [err |-> TRUE, avail |-> 0]

\* prepare's Content-Length step: the header's value parsed, a value that does
\* not parse is an error, no header leaves requestAvail at zero.
contentLength(header) ==
    IF ~HeaderGet(header, HeaderContentLength).found THEN [err |-> FALSE, avail |-> 0]
    ELSE lengthOf(Atoi(HeaderGet(header, HeaderContentLength).s))

\* prepare's Expect step.
expectsContinue(header) ==
    /\ HeaderGet(header, HeaderExpect).found
    /\ ToLower(HeaderGet(header, HeaderExpect).s) = S_continue

versionAtLeast11(major, minor) == major > 1 \/ (major = 1 /\ minor >= 1)

\* Faulty variant: the version is not looked at: only Connection: close closes.
closeDecisionIgnoresVersion(atLeast11, header) ==
    /\ HeaderGet(header, HeaderConnection).found
    /\ ToLower(HeaderGet(header, HeaderConnection).s) = S_close

\* prepare's keep-alive step: close after the response below HTTP/1.1, and at
\* HTTP/1.1 or later when the request says Connection: close.
closeDecision(atLeast11, header) ==
    IF atLeast11
    THEN /\ HeaderGet(header, HeaderConnection).found
         /\ ToLower(HeaderGet(header, HeaderConnection).s) = S_close
    ELSE TRUE

\* prepare after the request line and the header block were read.
prepareParsed(cn, cl, atLeast11, header) ==
    IF cl.err THEN [err |-> TRUE, c |-> cn]
    ELSE [err |-> FALSE,
          c |-> [cn EXCEPT !.requestAvail = cl.avail,
                           !.write100Continue = expectsContinue(header),
                           !.atLeastHttp11 = atLeast11,
                           !.closeAfterResponse = closeDecision(atLeast11, header)]]

\* conn.prepare on a fresh conn.  parsed: readStatusLine and readHeaders both
\* succeeded, giving the version and the header collection.
prepare(cn, parsed, major, minor, header) ==
    IF ~parsed THEN [err |-> TRUE, c |-> cn]
    ELSE prepareParsed(cn, contentLength(header), versionAtLeast11(major, minor),
                       header)

\* ------------------------------------------------------- requestReader.Read

Continue100 == "HTTP/1.1 100 Continue\r\n\r\n"

\* Faulty variant: the interim response stays owed after it is written.
readPrefaceKeepsOwing(st) ==
    IF st.c.write100Continue
    THEN NetWrite(st, <<LitToken(Continue100)>>, Len(Continue100)).st
    ELSE st

\* The preface step of Read: the interim response is written when owed, and
\* is then no longer owed.  The write's error is ignored.
readPreface(st) ==
    IF st.c.write100Continue
    THEN [NetWrite(st, <<LitToken(Continue100)>>, Len(Continue100)).st
            EXCEPT !.c.write100Continue = FALSE]
    ELSE st

\* n, c.requestErr = c.br.Read(p); c.requestAvail -= n
streamRead(s1, n) ==
    [s1 EXCEPT !.c.requestErr = IF n > 0 THEN "nil" ELSE IF netUp THEN "EOF" ELSE "EIO",
               !.c.requestAvail = @ - n,
               !.sr = @ + 1]

\* Faulty variant: the slice is not cut to the remaining count.
readBodyUncut(s1, plen, got) ==
    IF s1.c.requestAvail <= 0 THEN [s1 EXCEPT !.c.requestErr = "EOF"]
    ELSE streamRead(s1, IF netUp THEN Min(got, plen) ELSE 0)

\* Read after the preface: end of stream when nothing is left, else at most
\* the remaining count is read from the stream, which answers with got bytes
\* (0: with an error).
readBody(s1, plen, got) ==
    IF s1.c.requestAvail <= 0 THEN [s1 EXCEPT !.c.requestErr = "EOF"]
    ELSE streamRead(s1, IF netUp THEN Min(got, Min(plen, s1.c.requestAvail)) ELSE 0)

\* Faulty variant: a latched read error is not looked at.
requestReadUnlatched(st, plen, got) == readBody(readPreface(st), plen, got)

\* requestReader.Read(p) with len(p) = plen
requestRead(st, plen, got) ==
    IF st.c.requestErr # "nil" THEN st
    ELSE readBody(readPreface(st), plen, got)

\* ------------------------------------------------------------- conn.Respond

\* Faulty variant: unread body bytes do not force the connection to close.
framingStartIgnoresBody(cn) ==
    [cn EXCEPT !.respondCalled = TRUE, !.chunked = TRUE,
               !.requestErr = "ErrResponseStarted"]

\* Respond's first step: the response is started, chunked until decided
\* otherwise, the body is no longer readable, and unread body bytes force the
\* connection to close.
framingStart(cn) ==
    [cn EXCEPT !.respondCalled = TRUE, !.chunked = TRUE,
               !.requestErr = "ErrResponseStarted",
               !.closeAfterResponse = @ \/ cn.requestAvail > 0]

\* Faulty variant: 304 Not Modified is framed as any other status.
framingNotModifiedAsOthers(f, status) == f

\* 304 Not Modified: no Content-Type, no Transfer-Encoding, no chunking.
framingNotModified(f, status) ==
    IF status = StatusNotModified
    THEN [c |-> [f.c EXCEPT !.chunked = FALSE],
          header |-> HeaderDelete(HeaderDelete(f.header, HeaderContentType),
                                  HeaderTransferEncoding)]
    ELSE f

\* A connection that will close says so and does not chunk.
framingClose(f) ==
    IF f.c.closeAfterResponse
    THEN [c |-> [f.c EXCEPT !.chunked = FALSE],
          header |-> HeaderSet(f.header, HeaderConnection, S_close)]
    ELSE f

\* c.responseAvail, _ = strconv.Atoi(s)
declaredLength(a) == IF a.ok THEN a.v ELSE 0

\* Faulty variant: a declared length does not end chunking.
framingLengthKeepsChunked(f) ==
    IF HeaderGet(f.header, HeaderContentLength).found
    THEN [f EXCEPT !.c.responseAvail =
                       declaredLength(Atoi(HeaderGet(f.header, HeaderContentLength).s))]
    ELSE [f EXCEPT !.c.responseAvail = 0]

\* The caller's Content-Length is the declared length (0 when it does not
\* parse) and ends chunking.
framingLength(f) ==
    IF HeaderGet(f.header, HeaderContentLength).found
    THEN [f EXCEPT !.c.responseAvail =
                       declaredLength(Atoi(HeaderGet(f.header, HeaderContentLength).s)),
                   !.c.chunked = FALSE]
    ELSE [f EXCEPT !.c.responseAvail = 0]

\* The caller's Transfer-Encoding ends chunking.
framingTransferEncoding(f) ==
    IF HeaderTransferEncoding \in DOMAIN f.header
    THEN [f EXCEPT !.c.chunked = FALSE]
    ELSE f

\* A response still chunked announces it.
framingChunked(f) ==
    IF f.c.chunked
    THEN [f EXCEPT !.header = HeaderSet(f.header, HeaderTransferEncoding, S_chunked)]
    ELSE f

\* The framing decision of Respond: the conn and the header set to serialize.
respondFraming(cn, status, header) ==
    framingChunked(
      framingTransferEncoding(
        framingLength(
          framingClose(
            framingNotModified([c |-> framingStart(cn), header |-> header],
                               status)))))

RECURSIVE ValuesLen(_, _)
ValuesLen(k, vs) ==
    IF vs = <<>> THEN 0
    ELSE Len(k) + 2 + Len(Head(vs)) + 2 + ValuesLen(k, Tail(vs))

RECURSIVE HeaderLen(_, _)
HeaderLen(h, keys) ==
    IF keys = {} THEN 0
    ELSE ValuesLen(CHOOSE x \in keys : TRUE, h[CHOOSE x \in keys : TRUE])
         + HeaderLen(h, keys \ {CHOOSE x \in keys : TRUE})

\* text, found := web.StatusText[status]
statusPhrase(status) ==
    IF StatusText(status).found THEN StatusText(status).text
    ELSE <<"s","t","a","t","u","s"," ","c","o","d","e"," ">> \o Itoa(status)

protoOf(cn) == IF cn.atLeastHttp11 THEN "HTTP/1.1" ELSE "HTTP/1.0"

\* The status line and header block Respond serializes, with its length.
serializeHead(cn, status, header) ==
    [ t |-> "head", proto |-> protoOf(cn), status |-> Itoa(status),
      text |-> statusPhrase(status), header |-> header,
      n |-> Len(protoOf(cn)) + 1 + Len(Itoa(status)) + 1 + Len(statusPhrase(status))
            + 2 + HeaderLen(header, DOMAIN header) + 2 ]

ChunkedWriter == [NoWriter EXCEPT !.open = TRUE, !.kind = "chunked"]
IdentityWriter == [NoWriter EXCEPT !.open = TRUE, !.kind = "identity"]

\* c.bw = bufio.NewWriter(chunkedWriter{c}); _, c.responseErr = c.netConn.Write(b.Bytes())
commitChunked(st, head) ==
    [ st |-> [latchResponseErr(NetWrite(st, <<head>>, head.n)).st
                EXCEPT !.bw = ChunkedWriter],
      sink |-> "bw", head |-> <<head>> ]

\* c.bw = bufio.NewWriter(identityWriter{c}); c.bw.Write(b.Bytes())
commitIdentity(st, head) ==
    [ st |-> IF head.n > BufSize
             THEN directResult(identityWrite([st EXCEPT !.bw = IdentityWriter],
                                             <<head>>, head.n), head.n).st
             ELSE [st EXCEPT !.bw = [IdentityWriter EXCEPT !.head = <<head>>]],
      sink |-> "bw", head |-> <<head>> ]

\* The sink chosen: a chunked response's header block goes straight to the
\* stream, an identity response's into the sink's buffer.
commitHead(st, head) ==
    IF st.c.chunked THEN commitChunked(st, head) ELSE commitIdentity(st, head)

commitFramed(st, f, status) ==
    commitHead([st EXCEPT !.c = f.c], serializeHead(f.c, status, f.header))

\* Respond past its guards: the framing is decided, the header block
\* serialized, and the sink chosen.
respondCommit(st, status, header) ==
    commitFramed(st, respondFraming(st.c, status, header), status)

\* Faulty variant: a second call is not refused.
RespondUnguarded(st, status, header) ==
    IF st.c.hijacked THEN [st |-> st, sink |-> "nil", head |-> <<>>]
    ELSE respondCommit(st, status, header)

\* conn.Respond: nothing on a hijacked connection, nothing the second time.
Respond(st, status, header) ==
    IF st.c.hijacked THEN [st |-> st, sink |-> "nil", head |-> <<>>]
    ELSE IF st.c.respondCalled THEN [st |-> st, sink |-> "nil", head |-> <<>>]
    ELSE respondCommit(st, status, header)

\* -------------------------------------------------------------- conn.finish

DefaultHeader == HeaderSet(EmptyMap, HeaderContentType, S_default)

\* Faulty variant: no default response is synthesized.
finishNoDefault(st) == [st |-> st, sink |-> "none", head |-> <<>>]

\* finish's first step: a response nobody committed is committed as 200 OK.
finishDefault(st) ==
    IF ~st.c.respondCalled THEN Respond(st, StatusOK, DefaultHeader)
    ELSE [st |-> st, sink |-> "none", head |-> <<>>]

\* finish's second step: a response whose length count is not zero closes
\* the connection.
finishForceClose(st) ==
    IF st.c.responseAvail # 0 THEN [st EXCEPT !.c.closeAfterResponse = TRUE] ELSE st

Terminator == "0\r\n\r\n"

\* Faulty variant: finish writes no chunk terminator.
finishTerminatorSkipped(st) == st

\* finish's chunk terminator.
finishTerminator(st) ==
    IF st.c.chunked
    THEN latchResponseErr(NetWrite(st, <<LitToken(Terminator)>>, Len(Terminator))).st
    ELSE st

\* Faulty variant: finish detaches the stream and leaves the body open.
finishDetachOpen(st) == [st EXCEPT !.c.attached = FALSE, !.bw.open = FALSE]

\* finish's end: the body is closed and the stream detached from the conn.
finishDetach(st) ==
    [st EXCEPT !.c.responseErr = IF @ = "nil" THEN "ErrResponseBodyClosed" ELSE @,
               !.c.attached = FALSE,
               !.bw.open = FALSE]

\* finish after its first step.
finishCommitted(d) ==
    [ st |-> finishDetach(finishTerminator(bufFlush(finishForceClose(d.st)))),
      head |-> d.head ]

\* conn.finish
finish(st) == finishCommitted(finishDefault(st))

\* ----------------------------------------------------------------- actions

\* serveConnection's loop control after finish: break (and Close) or loop.
loopCloses(cn) == cn.closeAfterResponse

\* The engine's state after an operation.
Install(s) ==
    /\ c' = s.c
    /\ bw' = s.bw
    /\ out' = s.out

\* The operations the handler may perform in the cycle at hand.
OpsLimit == IF hist.old.kind # "none" THEN MaxLateOps ELSE MaxOps

\* serveConnection before the loop: the stream is open and nothing is read.
Init ==
    /\ pc = "await"
    /\ netUp = TRUE
    /\ closed = FALSE
    /\ c = NewConn
    /\ bw = NoWriter
    /\ req = NoRequest
    /\ out = <<>>
    /\ pend = 0
    /\ spins = 0
    /\ ops = 0
    /\ hist = NewHist
    /\ wlog = NoCalls
    /\ RouterIdle
    /\ HostIdle
    /\ ParserIdle

PrepareDone(r) ==
    /\ c' = r.c
    /\ pc' = IF r.err THEN "closed" ELSE "serve"
    /\ closed' = r.err
    /\ hist' = [NewHist EXCEPT !.prepares = 1, !.handled = ~r.err,
                               !.prior = (hist.prepares = 1),
                               !.keeps = hist.keeps,
                               !.old = hist.old, !.last = hist.last,
                               !.lateOk = hist.lateOk, !.lateUsed = hist.lateUsed]

\* The top of serveConnection's loop: a fresh conn and prepare; an error
\* breaks out of the loop to netConn.Close(), otherwise the handler is called.
Prepare(in) ==
    /\ pc = "await"
    /\ req' = IF in[1] /\ netUp
              THEN [ok |-> TRUE, major |-> in[2][1], minor |-> in[2][2],
                    header |-> RequestHeader(in[3], in[4], in[5])]
              ELSE NoRequest
    /\ PrepareDone(prepare(NewConn, in[1] /\ netUp, in[2][1], in[2][2],
                           RequestHeader(in[3], in[4], in[5])))
    /\ bw' = NoWriter
    /\ out' = <<>>
    /\ pend' = 0
    /\ spins' = 0
    /\ ops' = 0
    /\ UNCHANGED netUp
    /\ UNCHANGED others

HReadDone(s) ==
    /\ Install(s)
    /\ hist' = [hist EXCEPT !.reads = @ + 1,
                            !.earlyReads = IF c.respondCalled THEN @ ELSE @ + 1,
                            !.streamReads = s.sr,
                            !.readErr = IF @ = "nil" THEN s.c.requestErr ELSE @,
                            !.lateRead = hist.readErr # "nil",
                            !.lastErr = s.c.requestErr,
                            !.lastEarly = ~c.respondCalled,
                            !.served = @ + (c.requestAvail - s.c.requestAvail),
                            !.lastAvail = c.requestAvail,
                            !.lastN = c.requestAvail - s.c.requestAvail,
                            !.lastStream = s.sr # hist.streamReads,
                            !.lateTouch = @ \/ (hist.readErr # "nil"
                                                 /\ (s.sr # hist.streamReads
                                                     \/ s.out # out))]

\* The handler reads the request body.
HRead(plen, got) ==
    /\ pc = "serve"
    /\ ops < OpsLimit
    /\ HReadDone(requestRead(St, plen, got))
    /\ ops' = ops + 1
    /\ UNCHANGED <<pc, netUp, closed, req, pend, spins>>
    /\ UNCHANGED others

HRespondDone(r, status, header) ==
    /\ Install(r.st)
    /\ hist' = IF r.sink = "bw"
               THEN [hist EXCEPT !.responds = @ + 1, !.sink = "bw",
                                 !.by = "handler", !.status = status,
                                 !.header = header, !.head = r.head]
               ELSE [hist EXCEPT !.responds = @ + 1, !.sink = r.sink]

\* The handler commits a response.
HRespond(status, header) ==
    /\ pc = "serve"
    /\ ops < OpsLimit
    /\ HRespondDone(Respond(St, status, header), status, header)
    /\ ops' = ops + 1
    /\ UNCHANGED <<pc, netUp, closed, req, pend, spins>>
    /\ UNCHANGED others

\* The handler writes k bytes to the body sink Respond gave it.
HWrite(k) ==
    /\ pc = "serve"
    /\ ops < OpsLimit
    /\ hist.by = "handler"
    /\ IF bufWriteLoops(St, k)
       THEN /\ pc' = "write"
            /\ pend' = k
            /\ UNCHANGED <<c, bw, out, hist>>
       ELSE /\ pc' = "serve"
            /\ pend' = 0
            /\ bw' = bufWriteTail(St, k).bw
            /\ UNCHANGED <<c, out, hist>>
    /\ spins' = 0
    /\ ops' = ops + 1
    /\ UNCHANGED <<netUp, closed, req>>
    /\ UNCHANGED others

WriteStepDone(r) ==
    /\ Install(r.st)
    /\ hist' = [hist EXCEPT !.cw = r.st.cw]
    /\ pend' = r.pend
    /\ pc' = IF r.pend = 0 THEN "serve" ELSE "write"

\* One iteration of the write in progress; the write returns when its loop
\* condition no longer holds.
WriteStep ==
    /\ pc = "write"
    /\ spins < MaxSpin
    /\ WriteStepDone(bufWriteStep(bufWriteIter(St, pend)))
    /\ spins' = spins + 1
    /\ UNCHANGED <<netUp, closed, req, ops>>
    /\ UNCHANGED others

HFlushDone(s) ==
    /\ Install(s)
    /\ hist' = [hist EXCEPT !.cw = s.cw]

\* The handler flushes the body sink.
HFlush ==
    /\ pc = "serve"
    /\ ops < OpsLimit
    /\ hist.by = "handler"
    /\ HFlushDone(bufFlush(St))
    /\ ops' = ops + 1
    /\ UNCHANGED <<pc, netUp, closed, req, pend, spins>>
    /\ UNCHANGED others

\* The handler calls conn.Hijack, which returns no stream and no error and
\* changes nothing.
HHijack ==
    /\ pc = "serve"
    /\ ops < OpsLimit
    /\ hist' = [hist EXCEPT !.hijackAsked = TRUE]
    /\ ops' = ops + 1
    /\ UNCHANGED <<pc, netUp, closed, c, bw, req, out, pend, spins>>
    /\ UNCHANGED others

FinishDone(r) ==
    /\ Install(r.st)
    /\ hist' = IF r.head # <<>>
               THEN [hist EXCEPT !.finishes = @ + 1, !.cw = r.st.cw,
                                 !.by = "default", !.status = StatusOK,
                                 !.header = DefaultHeader, !.head = r.head,
                                 !.old = IF hist.keeps
                                         THEN [c |-> r.st.c, kind |-> r.st.bw.kind]
                                         ELSE @]
               ELSE [hist EXCEPT !.finishes = @ + 1, !.cw = r.st.cw,
                                 !.old = IF hist.keeps
                                         THEN [c |-> r.st.c, kind |-> r.st.bw.kind]
                                         ELSE @]
    /\ pc' = IF loopCloses(r.st.c) THEN "closed" ELSE "await"
    /\ closed' = loopCloses(r.st.c)

\* The handler returns: serveConnection leaves on a hijacked conn, otherwise
\* runs finish and then closes the stream or loops.
Finish ==
    /\ pc = "serve"
    /\ IF c.hijacked
       THEN /\ pc' = "returned"
            /\ UNCHANGED <<closed, c, bw, out, hist>>
       ELSE FinishDone(finish(St))
    /\ UNCHANGED <<netUp, req, pend, spins, ops>>
    /\ UNCHANGED others

\* The engine state a kept body or sink of the finished conn works on: that
\* conn and its writer, and the stream as it is now.
OldSt == [St EXCEPT !.c = hist.old.c, !.bw.kind = hist.old.kind]

\* A cycle was finished, and its body and sink may still be in some hands.
Kept ==
    /\ hist.old.kind # "none"
    /\ pc \in {"await", "serve", "closed"}

LateReadDone(s) ==
    /\ out' = s.out
    /\ hist' = [hist EXCEPT !.old.c = s.c,
                            !.last = "read",
                            !.lateOk = @ \/ s.c.requestErr = "nil",
                            !.lateUsed = @ \/ s.out # out \/ s.sr # hist.streamReads]

\* The body of the finished request is read.
LateRead(plen, got) ==
    /\ Kept
    /\ LateReadDone(requestRead(OldSt, plen, got))
    /\ UNCHANGED <<pc, netUp, closed, c, bw, req, pend, spins, ops>>
    /\ UNCHANGED others

LateWriteDone(r) ==
    /\ out' = r.st.out
    /\ hist' = [hist EXCEPT !.old.c = r.st.c,
                            !.last = "write",
                            !.lateOk = @ \/ r.err = "nil",
                            !.lateUsed = @ \/ r.st.out # out]

\* The kept sink of the finished response hands k bytes to the writer behind it.
LateWrite(k) ==
    /\ Kept
    /\ LateWriteDone(wrWrite(OldSt, <<DataToken(k)>>, k))
    /\ UNCHANGED <<pc, netUp, closed, c, bw, req, pend, spins, ops>>
    /\ UNCHANGED others

\* The peer goes away while the handler runs: every later read and write of
\* the stream fails.
NetFail ==
    /\ pc \in {"serve", "write"}
    /\ netUp
    /\ netUp' = FALSE
    /\ UNCHANGED <<pc, closed, c, bw, req, out, pend, spins, ops, hist>>
    /\ UNCHANGED others

Next ==
    \/ \E in \in RequestInputs : Prepare(in)
    \/ \E plen \in ReadLens, got \in 0..2 : HRead(plen, got)
    \/ \E status \in Statuses, header \in ResponseHeaders : HRespond(status, header)
    \/ \E k \in WriteLens : HWrite(k)
    \/ WriteStep
    \/ HFlush
    \/ HHijack
    \/ Finish
    \/ NetFail

Spec == Init /\ [][Next]_vars

\* The same engine under an application that keeps the body and the sink of a
\* request past its cycle and goes on using them.
LateInit ==
    /\ pc = "await"
    /\ netUp = TRUE
    /\ closed = FALSE
    /\ c = NewConn
    /\ bw = NoWriter
    /\ req = NoRequest
    /\ out = <<>>
    /\ pend = 0
    /\ spins = 0
    /\ ops = 0
    /\ hist = [NewHist EXCEPT !.keeps = TRUE]
    /\ wlog = NoCalls
    /\ RouterIdle
    /\ HostIdle
    /\ ParserIdle

LateNext ==
    \/ Next
    \/ \E plen \in ReadLens, got \in 0..2 : LateRead(plen, got)
    \/ \E k \in WriterLens : LateWrite(k)

LateSpec == LateInit /\ [][LateNext]_vars

\* ------------------------------------------------ the body writers, directly

\* A conn whose response is committed, with its identity or chunked writer and
\* a working stream; the writer is then called directly, without the buffered
\* sink in front of it.
WriterInit ==
    /\ pc = "writers"
    /\ netUp = TRUE
    /\ closed = FALSE
    /\ \E avail \in {0, 65} :
          c = [NewConn EXCEPT !.respondCalled = TRUE, !.atLeastHttp11 = TRUE,
                              !.responseAvail = avail]
    /\ bw \in {IdentityWriter, ChunkedWriter}
    /\ req = NoRequest
    /\ out = <<>>
    /\ pend = 0
    /\ spins = 0
    /\ ops = 0
    /\ hist = NewHist
    /\ wlog = NoCalls
    /\ RouterIdle
    /\ HostIdle
    /\ ParserIdle

WriterCallDone(r) ==
    /\ c' = r.st.c
    /\ out' = r.st.out
    /\ hist' = [hist EXCEPT !.cw = r.st.cw]
    /\ wlog' = [ calls |-> wlog.calls + 1,
                 first |-> IF wlog.first = "nil" THEN r.err ELSE wlog.first,
                 late |-> wlog.first # "nil",
                 n |-> r.n,
                 err |-> r.err,
                 touched |-> r.st.out # out ]

\* identityWriter.Write(p) or chunkedWriter.Write(p) with len(p) = len.
WriterCall(len) ==
    /\ pc = "writers"
    /\ wlog.calls < MaxCalls
    /\ WriterCallDone(wrWrite(St, <<DataToken(len)>>, len))
    /\ UNCHANGED <<pc, netUp, closed, bw, req, pend, spins, ops, rvars, hvars, parse>>

\* The stream starts failing its writes, or accepts them again.
StreamFlips ==
    /\ pc = "writers"
    /\ netUp' = ~netUp
    /\ UNCHANGED <<pc, closed, c, bw, req, out, pend, spins, ops, hist, wlog, rvars, hvars, parse>>

WriterNext ==
    \/ \E len \in WriterLens : WriterCall(len)
    \/ StreamFlips

WriterSpec == WriterInit /\ [][WriterNext]_vars


\* ------------------------------------------------------ route patterns (web)

\* No serveConnection running: the state of a part exercised on its own.
EngineIdle ==
    /\ pc = "off"
    /\ netUp = TRUE
    /\ closed = FALSE
    /\ c = NewConn
    /\ bw = NoWriter
    /\ req = NoRequest
    /\ out = <<>>
    /\ pend = 0
    /\ spins = 0
    /\ ops = 0
    /\ hist = NewHist

\* [A-Za-z0-9_]
IsNameChar(ch) ==
    \/ \E i \in 1..26 : UpperChars[i] = ch \/ LowerChars[i] = ch
    \/ IsDigit(ch)
    \/ ch = "_"

\* The end of the longest run of name characters from position j on.
RECURSIVE NameEnd(_, _)
NameEnd(p, j) == IF j <= Len(p) /\ IsNameChar(p[j]) THEN NameEnd(p, j + 1) ELSE j

\* The first position from j on that holds ch (0: none).
RECURSIVE IndexFrom(_, _, _)
IndexFrom(p, ch, j) ==
    IF j > Len(p) THEN 0 ELSE IF p[j] = ch THEN j ELSE IndexFrom(p, ch, j + 1)

NoParameter == [ok |-> FALSE, at |-> 0, end |-> 0, name |-> <<>>, hasRe |-> FALSE, re |-> <<>>]

\* parameterRegexp, "<([A-Za-z0-9_]*)(:[^>]*)?>", tried at the '<' at i, the
\* name ending before j.
ParameterAt(p, i, j) ==
    IF j > Len(p) THEN NoParameter
    ELSE IF p[j] = ">"
    THEN [ok |-> TRUE, at |-> i, end |-> j, name |-> SubSeq(p, i + 1, j - 1),
          hasRe |-> FALSE, re |-> <<>>]
    ELSE IF p[j] = ":" /\ IndexFrom(p, ">", j + 1) # 0
    THEN [ok |-> TRUE, at |-> i, end |-> IndexFrom(p, ">", j + 1),
          name |-> SubSeq(p, i + 1, j - 1), hasRe |-> TRUE,
          re |-> SubSeq(p, j + 1, IndexFrom(p, ">", j + 1) - 1)]
    ELSE NoParameter

\* parameterRegexp.FindStringSubmatchIndex(pattern): the leftmost parameter.
RECURSIVE FindParameter(_, _)
FindParameter(p, i) ==
    IF i > Len(p) THEN NoParameter
    ELSE IF p[i] = "<" /\ ParameterAt(p, i, NameEnd(p, i + 1)).ok
    THEN ParameterAt(p, i, NameEnd(p, i + 1))
    ELSE FindParameter(p, i + 1)

\* regexp.QuoteMeta(text): every character stands for itself.
QuoteMeta(text) == [i \in 1..Len(text) |-> [t |-> "lit", ch |-> text[i], opt |-> FALSE]]

\* "[^" + sep + "]+"
DefaultRe(sep) == <<"[", "^", sep, "]", "+">>

\* One parameter's part of the expression: a group when the parameter is named.
ParameterRe(m, sep) ==
    [t |-> "re", group |-> m.name # <<>>, re |-> IF m.hasRe THEN m.re ELSE DefaultRe(sep)]

\* compilePattern's loop: the expression's parts and the parameter names.
RECURSIVE compileLoop(_, _, _)
compileLoop(pattern, m, sep) ==
    IF ~m.ok THEN [regexp |-> QuoteMeta(pattern), names |-> <<>>]
    ELSE [ regexp |-> QuoteMeta(SubSeq(pattern, 1, m.at - 1)) \o <<ParameterRe(m, sep)>>
                      \o compileLoop(SubSeq(pattern, m.end + 1, Len(pattern)),
                                     FindParameter(SubSeq(pattern, m.end + 1, Len(pattern)), 1),
                                     sep).regexp,
           names |-> (IF m.name # <<>> THEN <<m.name>> ELSE <<>>)
                     \o compileLoop(SubSeq(pattern, m.end + 1, Len(pattern)),
                                    FindParameter(SubSeq(pattern, m.end + 1, Len(pattern)), 1),
                                    sep).names ]

\* buf.WriteString("?"): what comes last in the expression becomes optional.
Optional(re) ==
    IF re = <<>> THEN re ELSE [re EXCEPT ![Len(re)].opt = TRUE]

\* compilePattern: "^" parts "$", with "?" before the "$" under addSlash.
compilePattern(pattern, addSlash, sep) ==
    [ regexp |-> IF addSlash
                 THEN Optional(compileLoop(pattern, FindParameter(pattern, 1), sep).regexp)
                 ELSE compileLoop(pattern, FindParameter(pattern, 1), sep).regexp,
      names |-> compileLoop(pattern, FindParameter(pattern, 1), sep).names ]

Re_digits == <<"[", "0", "-", "9", "]", "+">>
Re_lower == <<"[", "a", "-", "z", "]", "+">>
Re_any == <<".", "*">>

\* Whether the whole of text matches a parameter's expression, for the
\* expressions the registered patterns use.
ReMatches(re, text) ==
    IF Len(re) = 5 /\ SubSeq(re, 1, 2) = <<"[", "^">> /\ SubSeq(re, 4, 5) = <<"]", "+">>
    THEN Len(text) > 0 /\ \A i \in 1..Len(text) : text[i] # re[3]
    ELSE IF re = Re_digits THEN Len(text) > 0 /\ \A i \in 1..Len(text) : IsDigit(text[i])
    ELSE IF re = Re_lower
    THEN Len(text) > 0 /\ \A i \in 1..Len(text) : \E k \in 1..26 : LowerChars[k] = text[i]
    ELSE re = Re_any

NoMatch == [ok |-> FALSE, values |-> <<>>]

\* The anchored expression matched against text: parts k.. against text from
\* position p on, a parameter taking the longest text that lets the rest
\* match.  Gives the groups' captured texts.
RECURSIVE MatchFrom(_, _, _, _)
RECURSIVE MatchRe(_, _, _, _, _)

MatchOrSkip(r, re, k, text, p) == IF r.ok THEN r ELSE MatchFrom(re, k + 1, text, p)

MatchLit(re, k, text, p) ==
    IF p <= Len(text) /\ text[p] = re[k].ch
    THEN IF re[k].opt THEN MatchOrSkip(MatchFrom(re, k + 1, text, p + 1), re, k, text, p)
         ELSE MatchFrom(re, k + 1, text, p + 1)
    ELSE IF re[k].opt THEN MatchFrom(re, k + 1, text, p)
    ELSE NoMatch

MatchRest(r, re, k, text, p, n) ==
    IF r.ok
    THEN [ok |-> TRUE,
          values |-> (IF re[k].group THEN <<SubSeq(text, p, p + n - 1)>> ELSE <<>>)
                     \o r.values]
    ELSE MatchRe(re, k, text, p, n - 1)

MatchRe(re, k, text, p, n) ==
    IF n < 0 THEN NoMatch
    ELSE IF ReMatches(re[k].re, SubSeq(text, p, p + n - 1))
    THEN MatchRest(MatchFrom(re, k + 1, text, p + n), re, k, text, p, n)
    ELSE MatchRe(re, k, text, p, n - 1)

MatchFrom(re, k, text, p) ==
    IF k > Len(re) THEN [ok |-> p = Len(text) + 1, values |-> <<>>]
    ELSE IF re[k].t = "lit" THEN MatchLit(re, k, text, p)
    ELSE MatchRe(re, k, text, p, Len(text) - p + 1)

\* regexp.FindStringSubmatch(text), without the whole match: values[1:]
FindStringSubmatch(re, text) == MatchFrom(re, 1, text, 1)

\* ------------------------------------------------------------- web.Router

StatusMovedPermanently == 301
StatusNotFound == 404
StatusMethodNotAllowed == 405

IsHexChar(ch) == \E i \in 1..16 : DigitChars[i] = LowerChar(ch)

\* The characters of the escaped bytes the requests use.
ByteChar(code) == IF code = 47 THEN "/" ELSE IF code = 97 THEN "a" ELSE "?"

\* http.URLUnescape: %XX is the byte XX, '+' a space, a '%' without two
\* hexadecimal digits an error.
RECURSIVE URLUnescape(_)
URLUnescape(v) ==
    IF v = <<>> THEN [ok |-> TRUE, s |-> <<>>]
    ELSE IF v[1] = "%"
    THEN IF Len(v) >= 3 /\ IsHexChar(v[2]) /\ IsHexChar(v[3])
         THEN [ok |-> URLUnescape(SubSeq(v, 4, Len(v))).ok,
               s |-> <<ByteChar(16 * DigitVal(LowerChar(v[2])) + DigitVal(LowerChar(v[3])))>>
                     \o URLUnescape(SubSeq(v, 4, Len(v))).s]
         ELSE [ok |-> FALSE, s |-> <<>>]
    ELSE [ok |-> URLUnescape(Tail(v)).ok,
          s |-> <<IF v[1] = "+" THEN " " ELSE v[1]>> \o URLUnescape(Tail(v)).s]

\* find's loop over the captured values: each unescaped, the first failure
\* ending it.
RECURSIVE unescapeValues(_)
unescapeValues(values) ==
    IF values = <<>> THEN [ok |-> TRUE, values |-> <<>>]
    ELSE IF ~URLUnescape(Head(values)).ok THEN [ok |-> FALSE, values |-> <<>>]
    ELSE [ok |-> unescapeValues(Tail(values)).ok,
          values |-> <<URLUnescape(Head(values)).s>> \o unescapeValues(Tail(values)).values]

\* routerError(status), returned without names and values.
routerError(status, i) ==
    [kind |-> "error", status |-> status, handler |-> "nil", route |-> i,
     names |-> <<>>, values |-> <<>>]

\* A registered handler, returned with the route's names and the values.
routeHandler(h, r, i, values) ==
    [kind |-> "handler", status |-> 0, handler |-> h, route |-> i,
     names |-> r.names, values |-> values]

\* Faulty variant: the wildcard handler is looked for before GET stands in
\* for HEAD.
resolveWildcardFirst(r, i, method, values) ==
    IF method \in DOMAIN r.handlers THEN routeHandler(r.handlers[method], r, i, values)
    ELSE IF "*" \in DOMAIN r.handlers THEN routeHandler(r.handlers["*"], r, i, values)
    ELSE IF method = "HEAD" /\ "GET" \in DOMAIN r.handlers
    THEN routeHandler(r.handlers["GET"], r, i, values)
    ELSE routerError(StatusMethodNotAllowed, i)

\* find's handler lookup in the matching route: the method's own handler,
\* GET's for HEAD, the "*" handler, else 405.
resolve(r, i, method, values) ==
    IF method \in DOMAIN r.handlers THEN routeHandler(r.handlers[method], r, i, values)
    ELSE IF method = "HEAD" /\ "GET" \in DOMAIN r.handlers
    THEN routeHandler(r.handlers["GET"], r, i, values)
    ELSE IF "*" \in DOMAIN r.handlers THEN routeHandler(r.handlers["*"], r, i, values)
    ELSE routerError(StatusMethodNotAllowed, i)

\* find after the values were unescaped.
findUnescaped(u, r, i, method) ==
    IF ~u.ok THEN routerError(StatusNotFound, i) ELSE resolve(r, i, method, u.values)

\* Faulty variant: the method is resolved before the trailing slash is asked for.
findMatchedMethodFirst(r, i, path, method, values) ==
    IF path = <<>> /\ r.addSlash
    THEN [kind |-> "panic", status |-> 0, handler |-> "nil", route |-> i,
          names |-> <<>>, values |-> <<>>]
    ELSE IF findUnescaped(unescapeValues(values), r, i, method).kind = "error"
    THEN findUnescaped(unescapeValues(values), r, i, method)
    ELSE IF r.addSlash /\ path[Len(path)] # "/"
    THEN [kind |-> "addSlash", status |-> 0, handler |-> "addSlash", route |-> i,
          names |-> <<>>, values |-> <<>>]
    ELSE findUnescaped(unescapeValues(values), r, i, method)

\* find in the route that matched: the trailing-slash redirect first (indexing
\* an empty path aborts), then the values, then the method.
findMatched(r, i, path, method, values) ==
    IF r.addSlash /\ path = <<>>
    THEN [kind |-> "panic", status |-> 0, handler |-> "nil", route |-> i,
          names |-> <<>>, values |-> <<>>]
    ELSE IF r.addSlash /\ path[Len(path)] # "/"
    THEN [kind |-> "addSlash", status |-> 0, handler |-> "addSlash", route |-> i,
          names |-> <<>>, values |-> <<>>]
    ELSE findUnescaped(unescapeValues(values), r, i, method)

RECURSIVE findFrom(_, _, _, _)

\* Faulty variant: a later matching route is preferred.
findNextLast(m, routes, i, path, method) ==
    IF ~m.ok THEN findFrom(routes, i + 1, path, method)
    ELSE IF findFrom(routes, i + 1, path, method).route # 0
    THEN findFrom(routes, i + 1, path, method)
    ELSE findMatched(routes[i], i, path, method, m.values)

\* One turn of find's loop: a route that does not match is passed over.
findNext(m, routes, i, path, method) ==
    IF ~m.ok THEN findFrom(routes, i + 1, path, method)
    ELSE findMatched(routes[i], i, path, method, m.values)

\* find's loop from route i on; 404 when the routes are exhausted.
findFrom(routes, i, path, method) ==
    IF i > Len(routes) THEN routerError(StatusNotFound, 0)
    ELSE findNext(FindStringSubmatch(routes[i].regexp, path), routes, i, path, method)

\* Router.find
find(rt, path, method) == findFrom(rt.routes, 1, path, method)

\* The handlers map Register builds from its (method, handler) pairs.
handlerMap(pairs) ==
    [m \in {pairs[i][1] : i \in 1..Len(pairs)} |->
        pairs[CHOOSE i \in 1..Len(pairs) :
                /\ pairs[i][1] = m
                /\ \A j \in (i + 1)..Len(pairs) : pairs[j][1] # m][2]]

\* The route Register builds.
newRoute(pattern, pairs) ==
    [ pattern |-> pattern,
      addSlash |-> pattern[Len(pattern)] = "/",
      regexp |-> compilePattern(pattern, pattern[Len(pattern)] = "/", "/").regexp,
      names |-> compilePattern(pattern, pattern[Len(pattern)] = "/", "/").names,
      handlers |-> handlerMap(pairs) ]

\* addSlash(req): the redirect's target.
addSlashLocation(path, query) ==
    IF Len(query) > 0 THEN path \o <<"/">> \o <<"?">> \o query ELSE path \o <<"/">>

\* req.URLParam[names[i]] = values[i], for every name in order.
URLParam(names, values) ==
    [n \in {names[i] : i \in 1..Len(names)} |->
        values[CHOOSE i \in 1..Len(names) :
                 /\ names[i] = n
                 /\ \A j \in (i + 1)..Len(names) : names[j] # n]]

\* Router.ServeWeb: what the request came to.
serveWeb(f, path, query, method) ==
    [ kind |-> f.kind, path |-> path, query |-> query, method |-> method,
      route |-> f.route, handler |-> f.handler, names |-> f.names, values |-> f.values,
      param |-> IF f.kind = "panic" THEN <<>> ELSE URLParam(f.names, f.values),
      status |-> IF f.kind = "addSlash" THEN StatusMovedPermanently ELSE f.status,
      location |-> IF f.kind = "addSlash" THEN addSlashLocation(path, query) ELSE <<>> ]

\* Patterns registered with the path router.
Pat_root == <<"/">>
Pat_files == <<"/", "f", "/">>
Pat_dir == <<"/", "<", "d", ">", "/">>
Pat_user == <<"/", "u", "/", "<", "i", "d", ">">>
Pat_userNum == <<"/", "u", "/", "<", "i", "d", ":", "[", "0", "-", "9", "]", "+", ">">>
Pat_bad == <<"u">>

\* What Register is called with: a pattern and (method, handler) pairs.
RouteInputs ==
    { <<Pat_files, <<<<"GET", "get">>>>>>,
      <<Pat_files, <<<<"POST", "post">>>>>>,
      <<Pat_user, <<<<"GET", "get">>>>>>,
      <<Pat_user, <<<<"POST", "post">>>>>>,
      <<Pat_user, <<<<"GET", "get">>, <<"*", "any">>>>>>,
      <<Pat_userNum, <<<<"HEAD", "head">>, <<"GET", "get">>>>>>,
      <<Pat_dir, <<<<"GET", "get">>>>>>,
      <<Pat_root, <<<<"GET", "get">>>>>>,
      <<Pat_bad, <<<<"GET", "get">>>>>> }

\* The paths, query strings and methods of the requests dispatched.
Paths ==
    { <<>>, <<"/">>, <<"/", "f">>, <<"/", "f", "/">>, <<"/", "x", "/", "y">>,
      <<"/", "u", "/", "4", "2">>, <<"/", "u", "/", "a", "%", "2", "f", "b">>,
      <<"/", "u", "/", "%", "z">>, <<"/", "%", "z">> }
Queries == { <<>>, <<"q", "=", "1">> }
Methods == {"GET", "HEAD", "POST"}

\* The handlers of one registration are its own: each is told from the
\* handlers of the other routes by the route's place.
ownHandlers(pairs, i) ==
    [k \in 1..Len(pairs) |-> <<pairs[k][1], [name |-> pairs[k][2], route |-> i]>>]

\* Router.Register(pattern, handlers...): a pattern that is empty or does not
\* begin with '/' and an empty handler list are refused; the route is
\* appended.
Register(pattern, pairs) ==
    /\ pc = "off"
    /\ Len(router.routes) < MaxRoutes
    /\ pattern # <<>> /\ pattern[1] = "/"
    /\ Len(pairs) > 0
    /\ router' = [router EXCEPT !.routes =
                     Append(@, newRoute(pattern, ownHandlers(pairs, Len(@) + 1)))]
    /\ UNCHANGED <<evars, wlog, dispatch, hvars, parse>>

\* Router.ServeWeb(req) for a request with this path, query and method.
ServeWeb(path, query, method) ==
    /\ pc = "off"
    /\ dispatch' = [ out |-> serveWeb(find(router, path, method), path, query, method),
                     kind |-> "served", n |-> Len(router.routes) ]
    /\ UNCHANGED <<evars, wlog, router, hvars, parse>>

RouterInit ==
    /\ EngineIdle
    /\ wlog = NoCalls
    /\ RouterIdle
    /\ HostIdle
    /\ ParserIdle

RouterNext ==
    \/ \E in \in RouteInputs : Register(in[1], in[2])
    \/ \E path \in Paths, query \in Queries, method \in Methods :
          ServeWeb(path, query, method)

RouterSpec == RouterInit /\ [][RouterNext]_vars


\* ---------------------------------------------------------- web.HostRouter

\* Faulty variant: the host is matched as the request gave it.
hostOfAsGiven(host) == host

\* host := strings.ToLower(req.URL.Host)
hostOf(host) == ToLower(host)

\* One turn of HostRouter.find's loop.
RECURSIVE hostFindFrom(_, _, _)
hostFindNext(m, rt, i, host) ==
    IF ~m.ok THEN hostFindFrom(rt, i + 1, host)
    ELSE [kind |-> "handler", handler |-> rt.routes[i].handler, route |-> i,
          names |-> rt.routes[i].names, values |-> m.values]

\* HostRouter.find: the first route that matches, else the default handler.
hostFindFrom(rt, i, host) ==
    IF i > Len(rt.routes)
    THEN [kind |-> "default", handler |-> rt.defaultHandler, route |-> 0,
          names |-> <<>>, values |-> <<>>]
    ELSE hostFindNext(FindStringSubmatch(rt.routes[i].regexp, host), rt, i, host)

\* HostRouter.ServeWeb: what the request came to.
hostServeWeb(f, given, host) ==
    [ kind |-> f.kind, given |-> given, host |-> host, route |-> f.route,
      handler |-> f.handler, names |-> f.names, values |-> f.values,
      param |-> URLParam(f.names, f.values) ]

\* Host patterns registered, and the Host values of the requests.
HostPatterns ==
    { <<"<", "s", ":", "[", "a", "-", "z", "]", "+", ">", ".", "e", ".", "c">>,
      <<"<", "s", ">", ".", "e", ".", "c">>,
      <<"e", ".", "c">>,
      <<"<", "a", ">", ".", "<", "b", ">">> }
Hosts ==
    { <<"A", "P", "I", ".", "e", ".", "c">>, <<"a", "1", ".", "e", ".", "c">>,
      <<"e", ".", "c">>, <<"E", ".", "C">>, <<"x", "-", "y">>, <<>> }

\* HostRouter.Register(hostPattern, handler)
HostRegister(pattern, name) ==
    /\ pc = "off"
    /\ Len(hostRouter.routes) < MaxRoutes
    /\ hostRouter' = [hostRouter EXCEPT !.routes =
          Append(@, [ pattern |-> pattern,
                      regexp |-> compilePattern(pattern, FALSE, ".").regexp,
                      names |-> compilePattern(pattern, FALSE, ".").names,
                      handler |-> [name |-> name, route |-> Len(@) + 1] ])]
    /\ UNCHANGED <<evars, wlog, rvars, hostDispatch, parse>>

\* HostRouter.ServeWeb(req) for a request with this Host.
HostServeWeb(host) ==
    /\ pc = "off"
    /\ hostDispatch' =
          [ out |-> hostServeWeb(hostFindFrom(hostRouter, 1, hostOf(host)), host,
                                 hostOf(host)),
            kind |-> "served", n |-> Len(hostRouter.routes) ]
    /\ UNCHANGED <<evars, wlog, rvars, hostRouter, parse>>

HostInit ==
    /\ EngineIdle
    /\ wlog = NoCalls
    /\ RouterIdle
    /\ ParserIdle
    /\ hostRouter \in {NewHostRouter(NilHandler), NewHostRouter([name |-> "fallback", route |-> 0])}
    /\ hostDispatch = NoDispatch

HostNext ==
    \/ \E pattern \in HostPatterns, name \in {"site", "api"} : HostRegister(pattern, name)
    \/ \E host \in Hosts : HostServeWeb(host)

HostSpec == HostInit /\ [][HostNext]_vars

\* ------------------------------------------- readStatusLine and readHeaders

maxLineSize == 4096
maxValueSize == 4096
maxHeaderCount == 256

\* web.IsSpaceByte and web.IsTokenByte
IsSpaceByte(ch) == ch \in {" ", "\t", "\r", "\n"}
IsTokenByte(ch) ==
    IsNameChar(ch) \/ ch \in {"!", "#", "$", "%", "&", "*", "+", "-", ".", "^", "|", "~"}

UpperChar(ch) ==
    IF \E i \in 1..26 : LowerChars[i] = ch
    THEN UpperChars[CHOOSE i \in 1..26 : LowerChars[i] = ch]
    ELSE ch

\* web.HeaderNameBytes: the canonical form of a header name.
HeaderNameBytes(p) ==
    [i \in 1..Len(p) |-> IF i = 1 \/ p[i - 1] = "-" THEN UpperChar(p[i]) ELSE LowerChar(p[i])]

\* skipBytes(p, web.IsSpaceByte) and skipBytes(p, web.IsTokenByte)
RECURSIVE skipSpace(_, _)
skipSpace(p, i) == IF i < Len(p) /\ IsSpaceByte(p[i + 1]) THEN skipSpace(p, i + 1) ELSE i
RECURSIVE skipToken(_, _)
skipToken(p, i) == IF i < Len(p) /\ IsTokenByte(p[i + 1]) THEN skipToken(p, i + 1) ELSE i

trimWSLeft(p) == SubSeq(p, skipSpace(p, 0) + 1, Len(p))

RECURSIVE trimWSRight(_)
trimWSRight(p) ==
    IF Len(p) > 0 /\ IsSpaceByte(p[Len(p)]) THEN trimWSRight(SubSeq(p, 1, Len(p) - 1))
    ELSE p

\* b.ReadSlice('\n'): the bytes up to and with the first '\n', or an error
\* when the source ends before one.
ReadSlice(input) ==
    IF IndexFrom(input, "\n", 1) = 0 THEN [err |-> "EOF", p |-> <<>>, rest |-> <<>>]
    ELSE [err |-> "nil", p |-> SubSeq(input, 1, IndexFrom(input, "\n", 1)),
          rest |-> SubSeq(input, IndexFrom(input, "\n", 1) + 1, Len(input))]

AllDigits(t) == Len(t) > 0 /\ \A i \in 1..Len(t) : IsDigit(t[i])

\* requestLineRegexp, "^([_A-Za-z0-9]+) ([^ ]+) HTTP/([0-9]+)\.([0-9]+)$",
\* with the first space at a, the next at b and the version's '.' at d.
requestLineAt(p, a, b, d) ==
    IF /\ a > 1 /\ b > a + 1 /\ d > b + 6
       /\ \A i \in 1..(a - 1) : IsNameChar(p[i])
       /\ SubSeq(p, b + 1, b + 5) = <<"H", "T", "T", "P", "/">>
       /\ AllDigits(SubSeq(p, b + 6, d - 1))
       /\ AllDigits(SubSeq(p, d + 1, Len(p)))
    THEN [ok |-> TRUE, method |-> SubSeq(p, 1, a - 1), target |-> SubSeq(p, a + 1, b - 1),
          major |-> SubSeq(p, b + 6, d - 1), minor |-> SubSeq(p, d + 1, Len(p))]
    ELSE [ok |-> FALSE, method |-> <<>>, target |-> <<>>, major |-> <<>>, minor |-> <<>>]

\* requestLineRegexp.FindSubmatch(p)
requestLineMatch(p) ==
    requestLineAt(p, IndexFrom(p, " ", 1),
                  IndexFrom(p, " ", IndexFrom(p, " ", 1) + 1),
                  IndexFrom(p, ".", IndexFrom(p, " ", IndexFrom(p, " ", 1) + 1) + 1))

\* readStatusLine after the line matched: the method upper-cased, the
\* version numbers, the target parsed as a URL.
statusLineFields(st, m, rest) ==
    IF ~m.ok THEN [st EXCEPT !.stage = "done", !.err = "malformed request line"]
    ELSE IF ~Atoi(m.major).ok THEN [st EXCEPT !.stage = "done", !.err = "bad major version"]
    ELSE IF ~Atoi(m.minor).ok THEN [st EXCEPT !.stage = "done", !.err = "bad minor version"]
    ELSE IF ~URLUnescape(m.target).ok THEN [st EXCEPT !.stage = "done", !.err = "bad url"]
    ELSE [st EXCEPT !.stage = "headers", !.input = rest,
                    !.method = [i \in 1..Len(m.method) |-> UpperChar(m.method[i])],
                    !.major = Atoi(m.major).v, !.minor = Atoi(m.minor).v,
                    !.target = m.target]

\* readStatusLine
readStatusLine(st, r) ==
    IF r.err # "nil" THEN [st EXCEPT !.stage = "done", !.err = r.err]
    ELSE statusLineFields(st, requestLineMatch(trimWSRight(r.p)), r.rest)

\* header.Append(key, value)
HeaderAppend(h, k, v) ==
    [x \in (DOMAIN h) \cup {k} |-> IF x = k THEN (IF k \in DOMAIN h THEN h[k] ELSE <<>>) \o <<v>>
                                   ELSE h[x]]

\* Faulty variant: the continuation is joined to the value with no space.
foldedWithoutSpace(value, p) == value \o p

\* value + " " + string(p)
folded(value, p) == value \o <<" ">> \o p

\* The stored value after the fold, or an error when it grew too long.
continuationStored(st, value) ==
    IF Len(value) > maxValueSize
    THEN [st EXCEPT !.stage = "done", !.err = "header value too long"]
    ELSE [st EXCEPT !.header[st.lastKey][Len(st.header[st.lastKey])] = value]

\* readHeaders on a line that begins with white space: p is the line trimmed.
continuationLine(st, p) ==
    IF st.lastKey = <<>>
    THEN [st EXCEPT !.stage = "done", !.err = "header continuation before first header"]
    ELSE IF Len(p) > 0
    THEN continuationStored(st, folded(st.header[st.lastKey][Len(st.header[st.lastKey])], p))
    ELSE st

\* readHeaders after the key: p is what follows it, left-trimmed.  p[0] of an
\* empty p is out of range.
headerValue(st, key, p) ==
    IF p = <<>> THEN [st EXCEPT !.stage = "done", !.err = "panic", !.lastKey = key]
    ELSE IF p[1] # ":"
    THEN [st EXCEPT !.stage = "done", !.err = "header missing :", !.lastKey = key]
    ELSE [st EXCEPT !.lastKey = key,
                    !.header = HeaderAppend(@, key, trimWSRight(trimWSLeft(Tail(p))))]

\* readHeaders on a line that begins a header: the key is the first i bytes.
headerLine(st, p, i) ==
    IF st.headerCount > maxHeaderCount
    THEN [st EXCEPT !.stage = "done", !.err = "too many headers"]
    ELSE IF i < 1 THEN [st EXCEPT !.stage = "done", !.err = "missing header key"]
    ELSE headerValue(st, HeaderNameBytes(SubSeq(p, 1, i)),
                     trimWSLeft(SubSeq(p, i + 1, Len(p))))

\* The line without its terminator, "\r\n" or "\n".
withoutTerminator(p) ==
    IF Len(p) >= 2 /\ p[Len(p) - 1] = "\r" THEN SubSeq(p, 1, Len(p) - 2)
    ELSE SubSeq(p, 1, Len(p) - 1)

\* One turn of readHeaders' loop on the line p, its terminator removed.
headersLoop(st, p) ==
    IF Len(p) = 0 THEN [st EXCEPT !.stage = "done"]
    ELSE IF Len(p) > maxLineSize
    THEN [st EXCEPT !.stage = "done", !.err = "header line too long"]
    ELSE IF IsSpaceByte(p[1]) THEN continuationLine(st, trimWSLeft(trimWSRight(p)))
    ELSE headerLine([st EXCEPT !.headerCount = @ + 1], p, skipToken(p, 0))

\* One turn of readHeaders' loop.
readHeaders(st, r) ==
    IF r.err # "nil" THEN [st EXCEPT !.stage = "done", !.err = r.err]
    ELSE headersLoop([st EXCEPT !.input = r.rest, !.line = withoutTerminator(r.p),
                                !.before = st.header],
                     withoutTerminator(r.p))

\* Request lines, header lines and the ends of the byte sources parsed.
RequestLines ==
    { <<"G", "e", "T", " ", "/", "f", " ", "H", "T", "T", "P", "/", "1", ".", "1", "\r", "\n">>,
      <<"G", "E", "T", " ", "/", "f", " ", "H", "T", "T", "P", "/", "1", ".", "0", "\n">>,
      <<"G", "E", "T", " ", "/", "f", "\r", "\n">>,
      <<"G", "E", "T", " ", "/", "%", "z", " ", "H", "T", "T", "P", "/", "1", ".", "1", "\n">>,
      <<" ">> }
HeaderLines ==
    { <<"A", ":", " ", "x", "\r", "\n">>,
      <<"b", "-", "c", ":", "y", ",", "\n">>,
      <<"A", " ", ":", " ", "x", " ", "\r", "\n">>,
      <<" ", "z", "\r", "\n">>,
      <<"\t", " ", "w", " ", "\r", "\n">>,
      <<" ", "\r", "\n">>,
      <<":", "v", "\r", "\n">>,
      <<"K", "\r", "\n">>,
      <<"K", " ", "x", "\r", "\n">> }
Endings == { <<"\r", "\n">>, <<"\n">>, <<>> }

\* The header blocks of at most n lines.
RECURSIVE HeaderBlocks(_)
HeaderBlocks(n) ==
    IF n = 0 THEN {<<>>}
    ELSE HeaderBlocks(n - 1) \cup {l \o b : l \in HeaderLines, b \in HeaderBlocks(n - 1)}

\* web.NewRequest() and a buffered reader on the byte source.
NewParse(input) ==
    [ stage |-> "line", input |-> input, err |-> "nil",
      method |-> <<>>, target |-> <<>>, major |-> 0, minor |-> 0,
      header |-> EmptyMap, lastKey |-> <<>>, headerCount |-> 0,
      line |-> <<>>, before |-> EmptyMap ]

ParserInit ==
    /\ EngineIdle
    /\ wlog = NoCalls
    /\ RouterIdle
    /\ HostIdle
    /\ \E l \in RequestLines, b \in HeaderBlocks(MaxLines), e \in Endings :
          parse = NewParse(l \o b \o e)

\* readStatusLine(b, req)
ReadStatusLine ==
    /\ parse.stage = "line"
    /\ parse' = readStatusLine(parse, ReadSlice(parse.input))
    /\ UNCHANGED <<evars, wlog, rvars, hvars>>

\* One turn of the loop of readHeaders(b, req.Header).
ReadHeaders ==
    /\ parse.stage = "headers"
    /\ parse' = readHeaders(parse, ReadSlice(parse.input))
    /\ UNCHANGED <<evars, wlog, rvars, hvars>>

ParserNext == ReadStatusLine \/ ReadHeaders

ParserSpec == ParserInit /\ [][ParserNext]_vars


\* ------------------------------------------------------- facts of the cycle

\* prepare succeeded for the current request and the handler was invoked.
Handled == hist.prepares = 1 /\ hist.handled
\* finish has run for the current request.
Finished == hist.finishes > 0
\* A response has been committed, by the handler or by finish.
Committed == hist.by # "none"

ReqBelow11 == req.ok /\ (req.major < 1 \/ (req.major = 1 /\ req.minor < 1))

ReqSaysClose ==
    /\ req.ok
    /\ ~ReqBelow11
    /\ HeaderConnection \in DOMAIN req.header
    /\ ToLower(req.header[HeaderConnection][1]) = S_close

ReqExpectsContinue ==
    /\ req.ok
    /\ HeaderExpect \in DOMAIN req.header
    /\ ToLower(req.header[HeaderExpect][1]) = S_continue

ReqBadLength ==
    /\ req.ok
    /\ HeaderContentLength \in DOMAIN req.header
    /\ ~Atoi(req.header[HeaderContentLength][1]).ok

\* The caller supplied a Content-Length with the response it committed.
CallerLengthGiven ==
    Committed /\ HeaderContentLength \in DOMAIN hist.header
\* ... and the length it declares (0 when it does not parse).
CallerLength ==
    IF CallerLengthGiven /\ Atoi(hist.header[HeaderContentLength][1]).ok
    THEN Atoi(hist.header[HeaderContentLength][1]).v
    ELSE 0

\* The caller supplied neither Content-Length nor Transfer-Encoding.
CallerNoFraming ==
    /\ Committed
    /\ HeaderContentLength \notin DOMAIN hist.header
    /\ HeaderTransferEncoding \notin DOMAIN hist.header

\* The header block Respond serialized.
TheHead == hist.head[1]

IsHead(tok) == tok.t = "head"
IsLit(tok, s) == tok.t = "lit" /\ tok.s = s
IsData(tok, n) == tok.t = "data" /\ tok.n = n

CountHeads == Cardinality({i \in 1..Len(out) : IsHead(out[i])})
Count100 == Cardinality({i \in 1..Len(out) : IsLit(out[i], Continue100)})

\* What followed the header block on the stream.
BodyOnWire ==
    IF CountHeads = 0 THEN <<>>
    ELSE SubSeq(out, (CHOOSE i \in 1..Len(out) : IsHead(out[i])) + 1, Len(out))

\* s is the lower-case hexadecimal numeral of n followed by CRLF.
IsSizeLine(s, n) ==
    /\ Len(s) >= 3
    /\ SubSeq(s, Len(s) - 1, Len(s)) = CRLF
    /\ \A i \in 1..(Len(s) - 2) : \E d \in 1..16 : DigitChars[d] = s[i]
    /\ (Len(s) > 3 => s[1] # "0")
    /\ HexVal(SubSeq(s, 1, Len(s) - 2)) = n

NonEmptyWrites == SelectSeq(hist.cw, LAMBDA n : n > 0)

\* The stream after the header block is one chunk per non-empty write that
\* reached the chunked writer, and the terminator once finish has run.
WireIsChunked ==
    /\ CountHeads = 1
    /\ Len(BodyOnWire) = 3 * Len(NonEmptyWrites) + (IF Finished THEN 1 ELSE 0)
    /\ \A i \in 1..Len(NonEmptyWrites) :
          /\ BodyOnWire[3 * i - 2].t = "chars"
          /\ IsSizeLine(BodyOnWire[3 * i - 2].s, NonEmptyWrites[i])
          /\ IsData(BodyOnWire[3 * i - 1], NonEmptyWrites[i])
          /\ IsLit(BodyOnWire[3 * i], "\r\n")
    /\ Finished => IsLit(BodyOnWire[Len(BodyOnWire)], Terminator)


\* ------------------------------------------------------------------ claims

\* C1: a request below HTTP/1.1 (whatever its headers), and a request at
\* HTTP/1.1 or later with Connection: close in any letter case, has
\* close-after-response set for its cycle; once finish has run the stream is
\* closed and the loop is left, so no further request is read from it.
C1_ClosingRequestServesOneCycle ==
    (Handled /\ (ReqBelow11 \/ ReqSaysClose)) =>
        /\ c.closeAfterResponse
        /\ pc # "await"
        /\ Finished => (pc = "closed" /\ closed)

\* C1 witness: an HTTP/1.0 request carrying Connection: keep-alive was served
\* and the stream closed after its one cycle.
C1_Witness ==
    /\ Handled /\ Finished /\ ReqBelow11
    /\ HeaderConnection \in DOMAIN req.header
    /\ req.header[HeaderConnection] = <<S_keepalive>>
    /\ pc = "closed" /\ closed

\* C2 (as claimed): whenever the committed response carries a caller-supplied
\* non-zero Content-Length, close-after-response is set at the end of finish
\* and the connection is closed after the cycle, whatever was written and
\* flushed before.
C2_DeclaredLengthCloses ==
    (Handled /\ Finished /\ CallerLength # 0) =>
        (c.closeAfterResponse /\ pc = "closed" /\ closed)

\* C3 (as claimed): a response committed with no Content-Length and no
\* Transfer-Encoding from the caller is chunked: the flag is set and the header
\* block announces Transfer-Encoding: chunked.
C3_NoFramingHeadersMeansChunked ==
    (Handled /\ CallerNoFraming) =>
        /\ c.chunked
        /\ HeaderTransferEncoding \in DOMAIN TheHead.header
        /\ TheHead.header[HeaderTransferEncoding] = <<S_chunked>>

\* The connection was still to be kept alive when the response was committed:
\* HTTP/1.1 or later, no Connection: close, no unread declared body bytes.
KeepAliveAtCommit == ~ReqBelow11 /\ ~ReqSaysClose /\ c.requestAvail <= 0

\* C3 (amended): a response committed with no Content-Length and no
\* Transfer-Encoding from the caller, a status other than 304, on a connection
\* still to be kept alive at commit, is chunked: the flag is set, the header
\* block announces Transfer-Encoding: chunked, and while the stream works what
\* follows the header block is one <hex-size>CRLF<bytes>CRLF chunk per
\* non-empty write that reached the chunked writer, ended by 0 CRLF CRLF
\* once finish has run.
C3_KeptAliveNoFramingHeadersMeansChunked ==
    (Handled /\ CallerNoFraming /\ hist.status # StatusNotModified
       /\ KeepAliveAtCommit) =>
        /\ c.chunked
        /\ HeaderTransferEncoding \in DOMAIN TheHead.header
        /\ TheHead.header[HeaderTransferEncoding] = <<S_chunked>>
        /\ netUp => WireIsChunked

\* C3 witness: the handler's chunked response carried one 26-byte chunk
\* ("1a") and finish wrote the terminator.
C3_Witness ==
    /\ Handled /\ Finished /\ netUp /\ hist.by = "handler"
    /\ CallerNoFraming /\ c.chunked
    /\ hist.cw = <<26>>
    /\ Len(BodyOnWire) = 4
    /\ BodyOnWire[1].t = "chars" /\ BodyOnWire[1].s = <<"1", "a", "\r", "\n">>

\* C4: a response committed with a caller-supplied Content-Length is never
\* chunked: the flag is clear, the engine adds no Transfer-Encoding header,
\* nothing reaches the chunked writer, and the stream carries no chunk-size
\* line and no terminator.
C4_DeclaredLengthNeverChunked ==
    (Handled /\ CallerLengthGiven) =>
        /\ ~c.chunked
        /\ bw.kind # "chunked"
        /\ hist.cw = <<>>
        /\ (HeaderTransferEncoding \in DOMAIN TheHead.header =>
              /\ HeaderTransferEncoding \in DOMAIN hist.header
              /\ hist.status # StatusNotModified
              /\ TheHead.header[HeaderTransferEncoding]
                   = hist.header[HeaderTransferEncoding])
        /\ \A i \in 1..Len(out) :
              out[i].t # "chars" /\ ~IsLit(out[i], Terminator)
                                 /\ ~IsLit(out[i], "\r\n")

\* C4 witness: a length-declared response on a kept-alive HTTP/1.1 connection
\* took a body larger than the sink's buffer and was finished.
C4_Witness ==
    /\ Handled /\ Finished /\ CallerLengthGiven /\ netUp
    /\ ~ReqBelow11 /\ ~ReqSaysClose
    /\ \E i \in 1..Len(out) : out[i].t = "data" /\ out[i].n > 4000

\* C5: a Respond call on a conn whose response is already committed returns
\* no body sink, writes nothing, and leaves the conn (framing, declared
\* length, close-after-response), the sink and the serialized header block
\* as they were.
C5_SecondRespondIsNoOp ==
    [][(hist'.responds = hist.responds + 1 /\ c.respondCalled) =>
          /\ hist'.sink = "nil"
          /\ c' = c
          /\ bw' = bw
          /\ out' = out
          /\ hist'.head = hist.head
          /\ hist'.by = hist.by]_vars

\* C5 witness: the handler called Respond twice and the second call gave no
\* sink.
C5_Witness ==
    Handled /\ hist.responds >= 2 /\ hist.sink = "nil" /\ hist.by = "handler"

\* C6 (as claimed): once Hijack has returned without an error the engine
\* leaves the stream alone: finish is not run and the engine does not close
\* the stream.
C6_HijackEndsEngineInvolvement ==
    hist.hijackAsked => (hist.finishes = 0 /\ ~closed /\ pc # "await")

\* C7: when the request line, the headers or the Content-Length value fail to
\* parse, the loop ends: the handler is not invoked, nothing is written to the
\* stream, finish is not run, no further request is read and the stream is
\* closed.
C7_ParseFailureEndsConnection ==
    (hist.prepares = 1 /\ (~req.ok \/ ReqBadLength)) =>
        /\ ~hist.handled
        /\ ops = 0
        /\ out = <<>>
        /\ hist.finishes = 0
        /\ hist.by = "none"
        /\ pc = "closed" /\ closed

\* C7 witness: a request whose Content-Length is not a number ended the
\* connection.
C7_Witness ==
    hist.prepares = 1 /\ req.ok /\ ReqBadLength /\ pc = "closed" /\ closed

\* C8 (as claimed): while the stream works, 100 Continue has been written
\* exactly once if the request expects it and its body has been read at least
\* once, and not at all otherwise.
C8_ContinueOnFirstRead ==
    (Handled /\ netUp) =>
        Count100 = (IF ReqExpectsContinue /\ hist.reads > 0 THEN 1 ELSE 0)

\* C8 (amended): 100 Continue is written at most once per request, first on
\* the stream, only for a request whose Expect is 100-continue in any letter
\* case and only when the body was read before the response was committed;
\* while the stream works, such a read always writes it.  A body read made
\* after the response is committed writes nothing.
C8_ContinueOnFirstReadBeforeCommit ==
    Handled =>
        /\ Count100 <= 1
        /\ Count100 = 1 => (ReqExpectsContinue /\ hist.earlyReads > 0
                            /\ IsLit(out[1], Continue100))
        /\ (netUp /\ ReqExpectsContinue /\ hist.earlyReads > 0) => Count100 = 1

\* C8 witness: a request with Expect: 100-Continue had its body read twice
\* before the response and 100 Continue went out once.
C8_Witness ==
    /\ Handled /\ netUp /\ ReqExpectsContinue
    /\ req.header[HeaderExpect] = <<S_Continue>>
    /\ hist.earlyReads >= 2
    /\ Count100 = 1

\* C9: unread declared body bytes at commit, by the handler or by finish's
\* default response, force close-after-response: the header block carries
\* Connection: close, the response is not chunked, and after finish the
\* stream is closed and no further request is read.
C9_UnreadBodyForcesClose ==
    (Handled /\ Committed /\ c.requestAvail > 0) =>
        /\ c.closeAfterResponse
        /\ HeaderConnection \in DOMAIN TheHead.header
        /\ TheHead.header[HeaderConnection] = <<S_close>>
        /\ ~c.chunked
        /\ bw.kind # "chunked"
        /\ pc # "await"
        /\ Finished => (pc = "closed" /\ closed)

\* C9 witness: an HTTP/1.1 request without Connection: close whose body was
\* left partly unread got finish's default response and the stream was closed.
C9_Witness ==
    /\ Handled /\ Finished /\ hist.by = "default"
    /\ ~ReqBelow11 /\ ~ReqSaysClose
    /\ c.requestAvail > 0 /\ hist.reads > 0
    /\ pc = "closed" /\ closed

\* C10: a cycle that parsed and was not hijacked ends only through finish,
\* which runs once; while the stream works the cycle has put exactly one
\* response status line and header block on the stream (the interim
\* 100 Continue of C8 apart): the one the handler committed, or else a
\* 200 OK with the default content type and no body.
C10_OneHeaderBlockPerCycle ==
    Handled =>
        /\ pc \in {"await", "closed"} => hist.finishes = 1
        /\ hist.finishes <= 1
        /\ (Finished /\ netUp) =>
              /\ CountHeads = 1
              /\ \E i \in 1..Len(out) : out[i] = TheHead
              /\ hist.by = "handler" =>
                    (hist.responds >= 1 /\ TheHead.status = Itoa(hist.status))
              /\ hist.by = "default" =>
                    /\ hist.responds = 0
                    /\ TheHead.status = <<"2", "0", "0">>
                    /\ TheHead.text = <<"O", "K">>
                    /\ HeaderContentType \in DOMAIN TheHead.header
                    /\ TheHead.header[HeaderContentType] = <<S_default>>
                    /\ \A j \in 1..Len(out) : out[j].t # "data"

\* C10 witness: the handler committed nothing, finish synthesized the
\* default response and the connection went on to await the next request.
C10_Witness ==
    /\ Handled /\ Finished /\ netUp /\ hist.by = "default"
    /\ CountHeads = 1 /\ pc = "await"

\* The length the current request declared (0 without a Content-Length).
ReqDeclaredLength ==
    IF req.ok /\ HeaderContentLength \in DOMAIN req.header
       /\ Atoi(req.header[HeaderContentLength][1]).ok
    THEN Atoi(req.header[HeaderContentLength][1]).v
    ELSE 0

\* The bytes handed to the chunked writer.
RECURSIVE SumSeq(_)
SumSeq(q) == IF q = <<>> THEN 0 ELSE Head(q) + SumSeq(Tail(q))

\* C11: the engine is back at the top of its loop, about to read the next
\* request, only after finish has run for the request before: the sink is
\* closed and detached, and on a working stream exactly one header block went
\* out, an identity sink holds no unsent byte, whatever a chunked sink still
\* holds was handed to the chunked writer, and a chunked response ends with
\* the terminator.  And the handler is entered with per-request fields that
\* come from the new request alone: response not started, not chunked,
\* response length 0, no latched read or write error, no sink, nothing on the
\* stream for this cycle, request length / 100-continue / close-after-response
\* as the new request says.
C11_OneCycleAtATime ==
    /\ (pc = "await" /\ Handled) =>
          /\ hist.finishes = 1
          /\ ~bw.open /\ ~c.attached /\ c.responseErr # "nil"
          /\ netUp =>
                /\ CountHeads = 1
                /\ (bw.kind = "identity" => Buffered(bw) = 0)
                /\ (bw.kind = "chunked" => Buffered(bw) <= SumSeq(hist.cw))
                /\ (c.chunked => IsLit(out[Len(out)], Terminator))
    /\ (pc = "serve" /\ ops = 0) =>
          /\ ~c.respondCalled /\ ~c.chunked /\ ~c.hijacked
          /\ c.responseAvail = 0
          /\ c.responseErr = "nil" /\ c.requestErr = "nil"
          /\ c.requestAvail = ReqDeclaredLength
          /\ c.write100Continue = ReqExpectsContinue
          /\ c.closeAfterResponse = (ReqBelow11 \/ ReqSaysClose)
          /\ bw = NoWriter /\ out = <<>> /\ hist.finishes = 0

\* C11 witness: after a completed cycle the next request, with a two-byte
\* body and a 100-continue expectation, was parsed and its handler entered.
C11_Witness ==
    /\ pc = "serve" /\ ops = 0 /\ hist.prior
    /\ c.requestAvail = 2 /\ c.write100Continue
    /\ ~c.respondCalled /\ c.responseErr = "nil"

\* C12: once a call of the identity writer or of the chunked writer has
\* failed, every later call returns the error of that first failed call, with
\* a count of 0, and puts nothing on the stream, also when the stream would
\* accept writes again.
C12_WritersLatchFirstError ==
    wlog.late =>
        /\ wlog.err = wlog.first
        /\ wlog.n = 0
        /\ ~wlog.touched

\* C12 witness: a chunked writer whose write failed was called again after
\* the stream had recovered, and returned the first error.
C12_Witness ==
    /\ pc = "writers" /\ bw.kind = "chunked" /\ netUp
    /\ wlog.late /\ wlog.first = "EIO" /\ wlog.err = "EIO"
    /\ Len(out) > 0

\* C13 (as claimed): once a body read has returned an error, every later body
\* read of the cycle returns that same error, whatever happened in between.
C13_ReadErrorReplayed ==
    (Handled /\ hist.lateRead) => hist.lastErr = hist.readErr

\* C13 (amended): once a body read has returned an error, no later body read
\* of the cycle reads the stream or writes to it; a later read made before
\* the response is committed returns that same error, and a later read made
\* after the response is committed returns the response-started error.
C13_ReadErrorReplayedUntilCommit ==
    (Handled /\ hist.lateRead) =>
        /\ ~hist.lateTouch
        /\ hist.lastErr = (IF hist.lastEarly THEN hist.readErr
                           ELSE "ErrResponseStarted")

\* C13 witness: a body read returned end-of-stream, the response was
\* committed, and the next body read returned the response-started error.
C13_Witness ==
    /\ Handled /\ hist.lateRead /\ hist.reads = 2
    /\ hist.readErr = "EOF" /\ ~hist.lastEarly
    /\ hist.lastErr = "ErrResponseStarted"

\* ------------------------------------------------------ claims: the routers

\* A request was dispatched by the path router.
Served == dispatch.kind = "served"
\* Route i, registered when the request was dispatched, matches its path.
RouteMatches(i) == FindStringSubmatch(router.routes[i].regexp, dispatch.out.path).ok
\* The routes that match the request's path, among those registered when it
\* was dispatched.
MatchingRoutes == {i \in 1..dispatch.n : RouteMatches(i)}
\* The route that decided the request (0: none did).
Deciding == dispatch.out.route
DecidingRoute == router.routes[Deciding]

\* C14: the route that decides a request is the matching route registered
\* first, never a later one; without a matching route the outcome is 404 Not
\* Found; and the routes stay in the order they were registered in.
C14_FirstMatchingRouteDecides ==
    /\ \A i \in 1..Len(router.routes) :
          \A k \in DOMAIN router.routes[i].handlers :
             router.routes[i].handlers[k].route = i
    /\ Served =>
          /\ MatchingRoutes = {} =>
                /\ Deciding = 0
                /\ dispatch.out.kind = "error"
                /\ dispatch.out.status = StatusNotFound
          /\ MatchingRoutes # {} =>
                /\ Deciding \in MatchingRoutes
                /\ \A i \in MatchingRoutes : Deciding <= i
                /\ dispatch.out.kind = "handler" => dispatch.out.handler.route = Deciding

\* C14 witness: two routes match the path and both have a handler for the
\* method; the handler of the first was chosen.
C14_Witness ==
    /\ Served /\ MatchingRoutes = {1, 2}
    /\ dispatch.out.kind = "handler" /\ dispatch.out.handler.route = 1
    /\ dispatch.out.method \in DOMAIN router.routes[2].handlers
    /\ router.routes[1].pattern # router.routes[2].pattern

\* The request reached the deciding route's method lookup: it was not
\* redirected, its values unescaped, and nothing aborted.
MethodLookedUp ==
    /\ Served /\ Deciding > 0
    /\ dispatch.out.kind \in {"handler", "error"}
    /\ ~(dispatch.out.kind = "error" /\ dispatch.out.status = StatusNotFound)

HasHandler(m) == m \in DOMAIN DecidingRoute.handlers
Chose(m) ==
    dispatch.out.kind = "handler" /\ dispatch.out.handler = DecidingRoute.handlers[m]

\* C15: in the matching route the handler is the one registered for the
\* request's method; without one, for HEAD, the GET handler; without that,
\* the "*" handler; without that, the outcome is 405 Method Not Allowed,
\* decided by that route whatever later routes match and offer.
C15_MethodResolutionOrder ==
    MethodLookedUp =>
        /\ HasHandler(dispatch.out.method) => Chose(dispatch.out.method)
        /\ (~HasHandler(dispatch.out.method) /\ dispatch.out.method = "HEAD"
               /\ HasHandler("GET")) => Chose("GET")
        /\ (~HasHandler(dispatch.out.method)
               /\ ~(dispatch.out.method = "HEAD" /\ HasHandler("GET"))
               /\ HasHandler("*")) => Chose("*")
        /\ (~HasHandler(dispatch.out.method)
               /\ ~(dispatch.out.method = "HEAD" /\ HasHandler("GET"))
               /\ ~HasHandler("*")) =>
              /\ dispatch.out.kind = "error"
              /\ dispatch.out.status = StatusMethodNotAllowed
              /\ \A i \in MatchingRoutes : Deciding <= i

\* C15 witness: the first matching route has no handler for POST, the second
\* matching route has one, and the outcome is 405.
C15_Witness ==
    /\ MethodLookedUp /\ dispatch.out.method = "POST"
    /\ Deciding = 1 /\ MatchingRoutes = {1, 2}
    /\ "POST" \in DOMAIN router.routes[2].handlers
    /\ dispatch.out.kind = "error" /\ dispatch.out.status = StatusMethodNotAllowed

\* The first matching route's pattern ends in '/' and the path, which is
\* not empty, does not.
LacksSlash ==
    /\ Served /\ MatchingRoutes # {}
    /\ dispatch.out.path # <<>>
    /\ dispatch.out.path[Len(dispatch.out.path)] # "/"
    /\ \E i \in MatchingRoutes :
          /\ \A k \in MatchingRoutes : i <= k
          /\ router.routes[i].pattern[Len(router.routes[i].pattern)] = "/"

HostServed == hostDispatch.kind = "served"
\* Route i, registered when the request was dispatched, matches the
\* lower-cased Host value.
HostRouteMatches(i) ==
    FindStringSubmatch(hostRouter.routes[i].regexp, ToLower(hostDispatch.out.given)).ok
HostMatchingRoutes == {i \in 1..hostDispatch.n : HostRouteMatches(i)}

\* C17: the host router matches the lower-cased Host value; the first
\* registered route that matches it supplies the handler and every named
\* placeholder is bound to the text it captured; when no route matches the
\* handler is the default handler, which is the 404 Not Found responder when
\* none was supplied; the outcome is never a redirect and never a 405.
C17_HostRouterDispatch ==
    HostServed =>
        /\ hostDispatch.out.host = ToLower(hostDispatch.out.given)
        /\ hostDispatch.out.kind \in {"handler", "default"}
        /\ HostMatchingRoutes = {} =>
              /\ hostDispatch.out.kind = "default"
              /\ hostDispatch.out.handler = hostRouter.defaultHandler
              /\ hostDispatch.out.handler.name # "fallback" =>
                    hostDispatch.out.handler = NotFoundHandler
        /\ HostMatchingRoutes # {} =>
              /\ hostDispatch.out.kind = "handler"
              /\ hostDispatch.out.route \in HostMatchingRoutes
              /\ \A i \in HostMatchingRoutes : hostDispatch.out.route <= i
              /\ hostDispatch.out.handler = hostRouter.routes[hostDispatch.out.route].handler
              /\ hostDispatch.out.handler.route = hostDispatch.out.route
              /\ hostDispatch.out.names = hostRouter.routes[hostDispatch.out.route].names
              /\ Len(hostDispatch.out.values) = Len(hostDispatch.out.names)
              /\ \A k \in 1..Len(hostDispatch.out.names) :
                    /\ hostDispatch.out.names[k] \in DOMAIN hostDispatch.out.param
                    /\ (\A j \in (k + 1)..Len(hostDispatch.out.names) :
                          hostDispatch.out.names[j] # hostDispatch.out.names[k]) =>
                         hostDispatch.out.param[hostDispatch.out.names[k]] =
                            hostDispatch.out.values[k]
              /\ \A k \in 1..Len(hostDispatch.out.values) :
                    /\ hostDispatch.out.values[k] # <<>>
                    /\ \E a \in 1..Len(hostDispatch.out.host) :
                          SubSeq(hostDispatch.out.host, a,
                                 a + Len(hostDispatch.out.values[k]) - 1)
                             = hostDispatch.out.values[k]

\* C17 witness: API.e.c dispatched to the second route, <s:[a-z]+>.e.c, the
\* first not matching, with s bound to "api".
C17_Witness ==
    /\ HostServed /\ hostDispatch.out.given = <<"A", "P", "I", ".", "e", ".", "c">>
    /\ HostMatchingRoutes = {2}
    /\ hostDispatch.out.handler.route = 2
    /\ hostRouter.routes[2].pattern[3] = ":"
    /\ hostDispatch.out.param = (<<"s">> :> <<"a", "p", "i">>)

\* ------------------------------------------------------ C18: continuations

\* A header line that begins with a space or a tab was read and parsing goes on.
ContinuationRead ==
    /\ parse.stage = "headers"
    /\ parse.err = "nil"
    /\ parse.line # <<>>
    /\ parse.line[1] \in {" ", "\t"}

Blank(ch) == ch \in {" ", "\t"}

\* The line between its first and its last byte that is no space or tab.
ContentOf(line) ==
    IF \A i \in 1..Len(line) : Blank(line[i]) THEN <<>>
    ELSE SubSeq(line, CHOOSE i \in 1..Len(line) :
                          ~Blank(line[i]) /\ \A j \in 1..(i - 1) : Blank(line[j]),
                      CHOOSE i \in 1..Len(line) :
                          ~Blank(line[i]) /\ \A j \in (i + 1)..Len(line) : Blank(line[j]))

\* The last value of the header most recently seen, before the line was read.
PreviousValue == parse.before[parse.lastKey][Len(parse.before[parse.lastKey])]

\* C18: a header line beginning with a space or tab folds into the last value
\* of the most recently seen header: that value becomes the previous value,
\* one space and the trimmed content of the line, no key and no value is
\* added, every other value stays, and a line of white space only changes
\* nothing.
C18_ContinuationFolds ==
    ContinuationRead =>
        /\ parse.lastKey \in DOMAIN parse.before
        /\ DOMAIN parse.header = DOMAIN parse.before
        /\ \A k \in DOMAIN parse.header : Len(parse.header[k]) = Len(parse.before[k])
        /\ \A k \in DOMAIN parse.header : \A i \in 1..Len(parse.header[k]) :
              IF k = parse.lastKey /\ i = Len(parse.header[k]) /\ ContentOf(parse.line) # <<>>
              THEN parse.header[k][i] = PreviousValue \o <<" ">> \o ContentOf(parse.line)
              ELSE parse.header[k][i] = parse.before[k][i]

\* "A: x", "A : x " and then a tab, " w ": the second value of A is "x w".
C18_Witness ==
    /\ ContinuationRead
    /\ parse.line = <<"\t", " ", "w", " ">>
    /\ <<"A">> \in DOMAIN parse.before
    /\ parse.before[<<"A">>] = << <<"x">>, <<"x">> >>
    /\ parse.header[<<"A">>] = << <<"x">>, <<"x", " ", "w">> >>

\* ------------------------------------------------- C19: parsing never aborts

\* The byte source held the empty line that ends a header block.
BlockEnded == parse.line = <<>>

\* C19: parsing ends with a parsed request or with an error, never with the
\* worker aborted, and it ends with a parsed request only when the request
\* line and every header line were well formed and the empty line was read.
C19_ParsingNeverAborts ==
    parse.stage = "done" =>
        /\ parse.err # "panic"
        /\ parse.err = "nil" => parse.method # <<>> /\ BlockEnded

\* ------------------------------------------------------ C20: 304 responses

\* The handler committed the response with status 304 Not Modified.
NotModifiedCommitted ==
    Handled /\ hist.by = "handler" /\ hist.status = StatusNotModified

\* C20: a response committed with status 304 Not Modified is serialized
\* without Content-Type and without Transfer-Encoding, whatever the caller
\* supplied, and is framed as identity: the chunked flag is clear, the sink is
\* not the chunked writer, nothing reaches the chunked writer, and the stream
\* carries no chunk-size line and no terminator, finish included.
C20_NotModifiedIsIdentity ==
    NotModifiedCommitted =>
        /\ TheHead.status = Itoa(StatusNotModified)
        /\ HeaderContentType \notin DOMAIN TheHead.header
        /\ HeaderTransferEncoding \notin DOMAIN TheHead.header
        /\ ~c.chunked
        /\ bw.kind # "chunked"
        /\ hist.cw = <<>>
        /\ \A i \in 1..Len(out) :
              out[i].t # "chars" /\ ~IsLit(out[i], Terminator)

\* C20 witness: on an HTTP/1.1 connection that stays open, a 304 response
\* given Content-Type and Transfer-Encoding but no Content-Length was finished
\* and the next request awaited.
C20_Witness ==
    /\ NotModifiedCommitted /\ Finished /\ netUp
    /\ HeaderContentType \in DOMAIN hist.header
    /\ HeaderTransferEncoding \in DOMAIN hist.header
    /\ HeaderContentLength \notin DOMAIN hist.header
    /\ ~ReqBelow11 /\ ~ReqSaysClose
    /\ CountHeads = 1
    /\ pc = "await" /\ ~closed

\* ------------------------------------------------ C21: the body is bounded

\* The handler has read the request body at least once.
ReadsDone == Handled /\ hist.reads > 0

\* What C21 says of the counts, whoever reads and whenever: the bytes served
\* and the remaining count add up to the declared length, a declared length
\* that is not negative is never exceeded and leaves a remaining count that is
\* not negative, a negative one serves nothing, no read returns more than
\* the remaining count it began with, and a read that began with nothing
\* remaining returned nothing and did not read the stream.
BodyBounded ==
    Handled =>
        /\ hist.served + c.requestAvail = ReqDeclaredLength
        /\ hist.served >= 0
        /\ ReqDeclaredLength >= 0 => (hist.served <= ReqDeclaredLength /\ c.requestAvail >= 0)
        /\ ReqDeclaredLength < 0 => hist.served = 0
        /\ hist.reads > 0 =>
              /\ hist.lastN >= 0
              /\ hist.lastAvail > 0 => hist.lastN <= hist.lastAvail
              /\ hist.lastAvail <= 0 => (hist.lastN = 0 /\ ~hist.lastStream)

\* C21 (as claimed): the body reads serve at most the declared length, each
\* takes at most the remaining count, the count is never negative, and once
\* nothing remains (or no length was declared) every read reports end of
\* stream without reading the stream.
C21_BodyBoundedThenEOF ==
    /\ BodyBounded
    /\ (ReadsDone /\ hist.lastAvail <= 0) => hist.lastErr = "EOF"

\* C21 (amended): the same, but a read that finds nothing remaining reports
\* end of stream only when made before the response is committed; made after,
\* it reports the response-started error.  Neither reads the stream.
C21_BodyBoundedThenFails ==
    /\ BodyBounded
    /\ (ReadsDone /\ hist.lastAvail <= 0) =>
          hist.lastErr = (IF hist.lastEarly THEN "EOF" ELSE "ErrResponseStarted")

\* C21 witness: a two-byte body was read one byte at a time, and the third
\* read found nothing remaining and reported end of stream.
C21_Witness ==
    /\ ReadsDone /\ hist.reads = 3 /\ hist.streamReads = 2
    /\ ReqDeclaredLength = 2 /\ hist.served = 2
    /\ hist.lastAvail = 0 /\ hist.lastN = 0 /\ hist.lastErr = "EOF"

\* ------------------------------------------ C22: nothing after the cycle

\* C22: the conn finish has run for has a latched read error and a latched
\* write error and no stream, so every later read of its body and every later
\* write through its identity or chunked writer returns an error, reads
\* nothing from the stream and writes nothing to it, whether the engine is
\* between cycles, serving the next request or done with the connection.
C22_NothingAfterFinish ==
    /\ hist.old.kind # "none" =>
          /\ hist.old.c.requestErr # "nil"
          /\ hist.old.c.responseErr # "nil"
          /\ ~hist.old.c.attached
    /\ hist.last # "none" => (~hist.lateOk /\ ~hist.lateUsed)

\* C22 witness: while the next request of a working connection is served and
\* its header block is out, the writer of the finished response was called.
C22_Witness ==
    /\ Handled /\ hist.prior /\ netUp /\ pc = "serve"
    /\ hist.last = "write"
    /\ hist.old.kind = "identity"
    /\ CountHeads = 1

\* ------------------------------------------- C23: chunked bodies in full

\* C23: on a stream that never failed, a chunked response the handler
\* committed leaves no error in the buffered stage in front of the chunked
\* writer, every non-empty write that reached the chunked writer is on the
\* stream as one chunk, in order, and once finish has run nothing the handler
\* wrote is left undelivered in the buffer and the terminator ends the body.
C23_ChunkedBodyDeliveredInFull ==
    (Handled /\ netUp /\ hist.by = "handler" /\ c.chunked) =>
        /\ bw.err = "nil"
        /\ WireIsChunked
        /\ Finished => bw.n = 0

\* ------------------------------------------------ C24: dispatch is total

\* C24: whatever routes are registered and whatever the path and the method,
\* the empty path included, find comes to exactly one outcome among a
\* registered handler, the trailing-slash redirect, 404 and 405, never to an
\* index out of range, and returns as many parameter values as names.
C24_DispatchIsTotal ==
    Served =>
        /\ dispatch.out.kind \in {"handler", "addSlash", "error"}
        /\ dispatch.out.kind = "error" =>
              dispatch.out.status \in {StatusNotFound, StatusMethodNotAllowed}
        /\ dispatch.out.kind = "handler" =>
              dispatch.out.handler \in
                 {DecidingRoute.handlers[k] : k \in DOMAIN DecidingRoute.handlers}
        /\ Len(dispatch.out.names) = Len(dispatch.out.values)

====
